---- MODULE Spec2Model ----
(***************************************************************************)
(* vidkit: recognition, validation, identifier extraction and              *)
(* canonicalisation of YouTube and TikTok URLs                             *)
(* (src/src/utils/youtube/index.ts, src/src/utils/tiktok/index.ts).        *)
(*                                                                         *)
(* Every public operation is a pure function of a string and an options    *)
(* record.  Strings are TLA+ strings; a character is a string of length 1  *)
(* (SubSeq(s, i, i)).  The operations are operators translated line by     *)
(* line; the state machine calls one operation on one input and returns.   *)
(***************************************************************************)
EXTENDS Naturals, Sequences, FiniteSets, TLC

VARIABLES pc, op, parts, url, opts, result, lastIndex

vars == <<pc, op, parts, url, opts, result, lastIndex>>

(***************************************************************************)
(* Bounds of the model.                                                    *)
(***************************************************************************)
\* Largest number of blanks put before and after an input.
MaxPad == 1
\* Largest number of '/' put after the path of an input.
MaxSlash == 1
\* Largest number of entries of a params object.
MaxParams == 2

(***************************************************************************)
(* JavaScript values.                                                      *)
(***************************************************************************)
\* null / undefined.  No string of the model contains '<' or '>'.
null == "<null>"

\* !x for a string-or-null x: null, undefined and '' are falsy.
Falsy(x) == x = null \/ x = ""

\* A value that is neither a string nor falsy: the number 123.
number == "<123>"

\* typeof x === 'string'
isString(x) == x # null /\ x # number

\* !x || typeof x !== 'string'
notAString(x) == Falsy(x) \/ ~isString(x)

(***************************************************************************)
(* String primitives.                                                      *)
(***************************************************************************)
Ch(s, i) == SubSeq(s, i, i)

\* The characters i..j of s, j cut to the length of s.
Sub(s, i, j) == SubSeq(s, i, IF j > Len(s) THEN Len(s) ELSE j)

CharsOf(s) == {Ch(s, i) : i \in 1..Len(s)}

Digits == CharsOf("0123456789")
LowerLetters == CharsOf("abcdefghijklmnopqrstuvwxyz")
UpperLetters == CharsOf("ABCDEFGHIJKLMNOPQRSTUVWXYZ")
Letters == LowerLetters \cup UpperLetters

UpperSeq == "ABCDEFGHIJKLMNOPQRSTUVWXYZ"
LowerSeq == "abcdefghijklmnopqrstuvwxyz"

LowerCh(c) ==
  IF c \in UpperLetters
    THEN Ch(LowerSeq, CHOOSE i \in 1..26 : Ch(UpperSeq, i) = c)
    ELSE c

RECURSIVE ToLowerFrom(_, _)
ToLowerFrom(s, i) ==
  IF i > Len(s) THEN "" ELSE LowerCh(Ch(s, i)) \o ToLowerFrom(s, i + 1)

\* String.prototype.toLowerCase
toLowerCase(s) == ToLowerFrom(s, 1)

\* String.prototype.startsWith
startsWith(s, p) == Len(s) >= Len(p) /\ SubSeq(s, 1, Len(p)) = p

\* String.prototype.endsWith
endsWith(s, p) == Len(s) >= Len(p) /\ SubSeq(s, Len(s) - Len(p) + 1, Len(s)) = p

\* The substring of s from index i on.
From(s, i) == SubSeq(s, i, Len(s))

\* The first index >= i whose character is in cs, or Len(s) + 1.
RECURSIVE Find(_, _, _)
Find(s, cs, i) ==
  IF i > Len(s) \/ Ch(s, i) \in cs THEN i ELSE Find(s, cs, i + 1)

\* The first index >= i whose character is not in cs, or Len(s) + 1.
RECURSIVE Skip(_, _, _)
Skip(s, cs, i) ==
  IF i > Len(s) \/ Ch(s, i) \notin cs THEN i ELSE Skip(s, cs, i + 1)

\* The last index <= i whose character is not in cs, or 0.
RECURSIVE SkipBack(_, _, _)
SkipBack(s, cs, i) ==
  IF i < 1 \/ Ch(s, i) \notin cs THEN i ELSE SkipBack(s, cs, i - 1)

\* The last index <= i whose character is in cs, or 0.
RECURSIVE FindBack(_, _, _)
FindBack(s, cs, i) ==
  IF i < 1 \/ Ch(s, i) \in cs THEN i ELSE FindBack(s, cs, i - 1)

\* s without its leading and trailing characters of cs.
Strip(s, cs) == SubSeq(s, Skip(s, cs, 1), SkipBack(s, cs, Len(s)))

\* Every character of s is in cs.
AllIn(s, cs) == \A i \in 1..Len(s) : Ch(s, i) \in cs

\* White space of the model's alphabet.
WhiteSpace == {" "}

\* String.prototype.trim
trim(s) == Strip(s, WhiteSpace)

\* String.prototype.split(sep) for a one-character separator.
RECURSIVE SplitFrom(_, _, _)
SplitFrom(s, seps, i) ==
  LET j == Find(s, seps, i)
  IN  IF j > Len(s)
        THEN <<SubSeq(s, i, Len(s))>>
        ELSE <<SubSeq(s, i, j - 1)>> \o SplitFrom(s, seps, j + 1)

split(s, sep) == SplitFrom(s, {sep}, 1)

\* Array.prototype.filter(Boolean) on an array of strings.
RECURSIVE filterBoolean(_)
filterBoolean(a) ==
  IF a = <<>> THEN <<>>
  ELSE IF Head(a) = "" THEN filterBoolean(Tail(a))
  ELSE <<Head(a)>> \o filterBoolean(Tail(a))

\* Array.prototype.join
RECURSIVE join(_, _)
join(a, sep) ==
  IF a = <<>> THEN ""
  ELSE IF Len(a) = 1 THEN a[1]
  ELSE a[1] \o sep \o join(Tail(a), sep)

\* a[i] of a JavaScript array (0-based), undefined past its end.
At(a, i) == IF i + 1 \in 1..Len(a) THEN a[i + 1] ELSE null

\* s.replace(/^\/+|\/+$/g, '')
stripSlashes(s) == Strip(s, {"/"})

\* s.replace(/^www\./, '')
stripWWW(s) == IF startsWith(s, "www.") THEN From(s, 5) ELSE s

\* s.replace(/^@/, '')
stripAt(s) == IF startsWith(s, "@") THEN From(s, 2) ELSE s

\* /^https?:\/\//i.test(s)
hasProtocol(s) ==
  LET l == toLowerCase(Sub(s, 1, 8))
  IN  startsWith(l, "http://") \/ startsWith(l, "https://")

(***************************************************************************)
(* new URL(s): the WHATWG basic URL parser, for http and https URLs        *)
(* without a base.  The result is a record; ok = FALSE is the TypeError.   *)
(***************************************************************************)
\* Code points a host may not contain (forbidden host code points; '%' is
\* left to percent-decoding, which the alphabet of the model never needs).
ForbiddenHost == {" ", "#", "/", ":", "<", ">", "?", "@", "[", "\\", "]", "^", "|", "%"}

URLFailure == [ok |-> FALSE, hostname |-> "", pathname |-> "", search |-> "", query |-> <<>>]

\* The path state on one raw segment list: "." is dropped and ".." removes
\* the segment before it; either one, as the last segment, leaves an empty
\* last segment.
RECURSIVE PathSegments(_, _, _)
PathSegments(raw, i, acc) ==
  IF i > Len(raw) THEN acc
  ELSE LET seg == raw[i]
           last == i = Len(raw)
       IN  IF seg = ".."
             THEN LET popped == IF acc = <<>> THEN acc ELSE SubSeq(acc, 1, Len(acc) - 1)
                  IN  PathSegments(raw, i + 1, IF last THEN Append(popped, "") ELSE popped)
           ELSE IF seg = "."
             THEN PathSegments(raw, i + 1, IF last THEN Append(acc, "") ELSE acc)
           ELSE PathSegments(raw, i + 1, Append(acc, seg))

\* The percent-encoding of a path character (the path percent-encode set,
\* restricted to the alphabet of the model).
RECURSIVE EncodePath(_, _)
EncodePath(s, i) ==
  IF i > Len(s) THEN ""
  ELSE (IF Ch(s, i) = " " THEN "%20" ELSE Ch(s, i)) \o EncodePath(s, i + 1)

\* url.pathname from the raw path (the text from the end of the authority
\* to '?' or '#'); a special URL's path is never empty.
Pathname(rawPath) ==
  IF rawPath = "" THEN "/"
  ELSE "/" \o join(PathSegments(SplitFrom(EncodePath(rawPath, 1), {"/", "\\"}, 2), 1, <<>>), "/")

\* One name=value piece of a query string, as URLSearchParams reads it.
QueryPair(piece) ==
  LET e == Find(piece, {"="}, 1)
      plus(s) == join(split(s, "+"), " ")
  IN  <<plus(Sub(piece, 1, e - 1)), plus(From(piece, e + 1))>>

RECURSIVE QueryPairs(_)
QueryPairs(pieces) ==
  IF pieces = <<>> THEN <<>>
  ELSE <<QueryPair(Head(pieces))>> \o QueryPairs(Tail(pieces))

\* url.searchParams as the list of its (name, value) pairs.
SearchParams(query) == QueryPairs(filterBoolean(split(query, "&")))

\* Path and query states: the path runs from the end of the authority to
\* '?' or '#', the query from '?' to '#'; the fragment is dropped.
QueryState(s, host, authEnd, pathEnd, query) ==
  [ok |-> TRUE,
   hostname |-> toLowerCase(host),
   pathname |-> Pathname(Sub(s, authEnd, pathEnd - 1)),
   search |-> IF query = "" THEN "" ELSE "?" \o query,
   query |-> SearchParams(query)]

PathState(s, host, authEnd, pathEnd) ==
  QueryState(s, host, authEnd, pathEnd,
             IF pathEnd <= Len(s) /\ Ch(s, pathEnd) = "?"
               THEN Sub(s, pathEnd + 1, Find(s, {"#"}, pathEnd) - 1) ELSE "")

\* Host and port states: an empty host, a forbidden host code point or a
\* port that is no number is a failure.
PortState(s, authEnd, host, port) ==
  IF host = "" \/ ~AllIn(port, Digits) \/ \E i \in 1..Len(host) : Ch(host, i) \in ForbiddenHost
    THEN URLFailure
    ELSE PathState(s, host, authEnd, Find(s, {"?", "#"}, authEnd))

HostState(s, authEnd, hostport, hcolon) ==
  PortState(s, authEnd, Sub(hostport, 1, hcolon - 1), From(hostport, hcolon + 1))

\* Authority state: the authority ends at '/', '\', '?' or '#'; what
\* precedes its last '@' is credentials.
CredentialsState(s, authEnd, hostport) ==
  HostState(s, authEnd, hostport, Find(hostport, {":"}, 1))

AuthorityEnd(s, authEnd, authority) ==
  CredentialsState(s, authEnd,
                   From(authority, FindBack(authority, {"@"}, Len(authority)) + 1))

AuthorityState(s, a, authEnd) == AuthorityEnd(s, authEnd, Sub(s, a, authEnd - 1))

\* Special authority slashes state: any run of '/' and '\' after the scheme.
SlashesState(s, a) == AuthorityState(s, a, Find(s, {"/", "\\", "?", "#"}, a))

\* Scheme state: the scheme ends at the first ':'.  Every string the
\* operations hand to new URL starts with http: or https: in some letter case.
SchemeState(s, colon) ==
  IF colon > Len(s) \/ toLowerCase(Sub(s, 1, colon - 1)) \notin {"http", "https"}
    THEN URLFailure
    ELSE SlashesState(s, Skip(s, {"/", "\\"}, colon + 1))

StrippedURL(s) == SchemeState(s, Find(s, {":"}, 1))

\* new URL(input): leading and trailing C0 control or space is removed first.
ParseURL(input) == StrippedURL(Strip(input, WhiteSpace))

\* parsed.searchParams.get(name): the value of the first pair, or null.
searchParamsGet(parsed, name) ==
  LET I == {i \in 1..Len(parsed.query) : parsed.query[i][1] = name}
  IN  IF I = {} THEN null
      ELSE parsed.query[CHOOSE i \in I : \A j \in I : i <= j][2]

\* Array.from(parsed.searchParams.keys())
searchParamsKeys(parsed) == [i \in 1..Len(parsed.query) |-> parsed.query[i][1]]

(***************************************************************************)
(* URLValidationOptions (src/src/types/index.ts): every field is optional. *)
(* An options value is a function from the fields it sets to booleans.     *)
(***************************************************************************)
OptionKeys == {"allowNoProtocol", "allowNoWWW", "allowQueryParams"}

\* options = {}
NoOptions == [k \in {} |-> TRUE]

\* The options values of the model: none set, or all three set.
OptionsSet == {NoOptions} \cup [OptionKeys -> BOOLEAN]

\* Opt with options that are off unless given.
Opt_DefaultsToFalse(options, key) ==
  IF key \in DOMAIN options THEN options[key] ELSE FALSE

\* const { key = true } = options
Opt(options, key) == IF key \in DOMAIN options THEN options[key] ELSE TRUE

(***************************************************************************)
(* YouTube (src/src/utils/youtube/index.ts).                               *)
(***************************************************************************)
\* The length of a YouTube video id.
YouTubeIdLength == 11
\* The repetitions after the first character in /^(.)\1{10}$/.
YouTubeIdRepeats == 10

YouTubeIdChars == Letters \cup Digits \cup {"_", "-"}

\* videoId.length !== 11 || !/^[a-zA-Z0-9_-]{11}$/.test(videoId), negated
matchesYouTubeId(videoId) ==
  Len(videoId) = YouTubeIdLength /\ AllIn(videoId, YouTubeIdChars)

\* isRepeatedChar matching no identifier.
isRepeatedChar_Never(videoId) == FALSE

\* /^(.)\1{10}$/.test(videoId)
isRepeatedChar(videoId) ==
  /\ Len(videoId) = 1 + YouTubeIdRepeats
  /\ \A i \in 1..Len(videoId) : Ch(videoId, i) = Ch(videoId, 1)

youtubeAllowedHosts == {"youtube.com", "m.youtube.com", "youtu.be"}

\* validateLocateYouTubeId reading the shorts form as well.
validateLocateYouTubeId_AlsoShorts(parsed, hostname) ==
  IF hostname = "youtube.com" \/ hostname = "m.youtube.com"
    THEN IF parsed.pathname = "/watch" THEN searchParamsGet(parsed, "v")
         ELSE IF startsWith(parsed.pathname, "/shorts/") THEN At(split(parsed.pathname, "/"), 2)
         ELSE null
  ELSE IF hostname = "youtu.be"
    THEN stripSlashes(parsed.pathname)
  ELSE null

\* The identifier isValidYouTubeVideoURL locates.
validateLocateYouTubeId(parsed, hostname) ==
  IF hostname = "youtube.com" \/ hostname = "m.youtube.com"
    THEN IF parsed.pathname = "/watch" THEN searchParamsGet(parsed, "v") ELSE null
  ELSE IF hostname = "youtu.be"
    THEN stripSlashes(parsed.pathname)
  ELSE null

\* keys.length === 1 && keys[0] === 'v'
onlyKeyIsV(parsed) ==
  LET keys == searchParamsKeys(parsed)
  IN  Len(keys) = 1 /\ keys[1] = "v"

\* if (!/^https?:\/\//i.test(finalUrl)) finalUrl = 'https://' + finalUrl
addProtocol(finalUrl) ==
  IF hasProtocol(finalUrl) THEN finalUrl ELSE "https://" \o finalUrl

\* isValidYouTubeVideoURL from the parsed URL on.
validateParsedYouTube(parsed, options) ==
  LET allowQueryParams == Opt(options, "allowQueryParams")
      hostname == stripWWW(toLowerCase(parsed.hostname))
      videoId == validateLocateYouTubeId(parsed, hostname)
  IN  IF ~parsed.ok THEN FALSE
      ELSE IF hostname \notin youtubeAllowedHosts THEN FALSE
      ELSE IF Falsy(videoId) THEN FALSE
      ELSE IF ~matchesYouTubeId(videoId) THEN FALSE
      ELSE IF isRepeatedChar(videoId) THEN FALSE
      ELSE IF ~allowQueryParams /\ ~onlyKeyIsV(parsed) THEN FALSE
      ELSE TRUE

\* isValidYouTubeVideoURL adding the protocol whatever allowNoProtocol is.
isValidYouTubeVideoURL_AlwaysAddsProtocol(u, options) ==
  IF notAString(u) THEN FALSE
  ELSE validateParsedYouTube(ParseURL(addProtocol(trim(u))), options)

isValidYouTubeVideoURL(u, options) ==
  IF notAString(u) THEN FALSE
  ELSE IF ~hasProtocol(trim(u)) /\ ~Opt(options, "allowNoProtocol") THEN FALSE
  ELSE validateParsedYouTube(ParseURL(addProtocol(trim(u))), options)

\* extractLocateYouTubeId without the youtu.be branch.
extractLocateYouTubeId_NoShortHost(parsed, hostname) ==
  IF hostname = "youtube.com" \/ hostname = "m.youtube.com"
    THEN IF parsed.pathname = "/watch" THEN searchParamsGet(parsed, "v")
         ELSE IF startsWith(parsed.pathname, "/shorts/") THEN At(split(parsed.pathname, "/"), 2)
         ELSE IF startsWith(parsed.pathname, "/embed/") THEN At(split(parsed.pathname, "/"), 2)
         ELSE IF startsWith(parsed.pathname, "/live/") THEN At(split(parsed.pathname, "/"), 2)
         ELSE null
  ELSE null

\* The identifier getYouTubeVideoId locates.
extractLocateYouTubeId(parsed, hostname) ==
  IF hostname = "youtube.com" \/ hostname = "m.youtube.com"
    THEN IF parsed.pathname = "/watch" THEN searchParamsGet(parsed, "v")
         ELSE IF startsWith(parsed.pathname, "/shorts/") THEN At(split(parsed.pathname, "/"), 2)
         ELSE IF startsWith(parsed.pathname, "/embed/") THEN At(split(parsed.pathname, "/"), 2)
         ELSE IF startsWith(parsed.pathname, "/live/") THEN At(split(parsed.pathname, "/"), 2)
         ELSE null
  ELSE IF hostname = "youtu.be"
    THEN stripSlashes(parsed.pathname)
  ELSE null

\* getYouTubeVideoId from the parsed URL on.
extractParsedYouTube(parsed, options) ==
  LET allowQueryParams == Opt(options, "allowQueryParams")
      hostname == stripWWW(toLowerCase(parsed.hostname))
      videoId == extractLocateYouTubeId(parsed, hostname)
  IN  IF ~parsed.ok THEN null
      ELSE IF hostname \notin youtubeAllowedHosts THEN null
      ELSE IF Falsy(videoId) THEN null
      ELSE IF ~matchesYouTubeId(videoId) THEN null
      ELSE IF isRepeatedChar(videoId) THEN null
      ELSE IF ~allowQueryParams /\ ~onlyKeyIsV(parsed) THEN null
      ELSE videoId

getYouTubeVideoId(u, options) ==
  IF notAString(u) THEN null
  ELSE IF ~hasProtocol(trim(u)) /\ ~Opt(options, "allowNoProtocol") THEN null
  ELSE extractParsedYouTube(ParseURL(addProtocol(trim(u))), options)

\* inputUrl.startsWith('http') ? inputUrl : `https://${inputUrl}`
withHttps(inputUrl) ==
  IF startsWith(inputUrl, "http") THEN inputUrl ELSE "https://" \o inputUrl

\* normalizeLocateYouTubeId taking the wrong segment of a /shorts/ path.
normalizeLocateYouTubeId_WrongSegment(parsed, hostname) ==
  IF hostname = "youtube.com" \/ hostname = "m.youtube.com"
    THEN IF parsed.pathname = "/watch" THEN searchParamsGet(parsed, "v")
         ELSE IF startsWith(parsed.pathname, "/shorts/") THEN At(split(parsed.pathname, "/"), 1)
         ELSE null
  ELSE IF hostname = "youtu.be"
    THEN stripSlashes(parsed.pathname)
  ELSE null

\* The identifier normalizeYouTubeVideoURL locates.
normalizeLocateYouTubeId(parsed, hostname) ==
  IF hostname = "youtube.com" \/ hostname = "m.youtube.com"
    THEN IF parsed.pathname = "/watch" THEN searchParamsGet(parsed, "v")
         ELSE IF startsWith(parsed.pathname, "/shorts/") THEN At(split(parsed.pathname, "/"), 2)
         ELSE null
  ELSE IF hostname = "youtu.be"
    THEN stripSlashes(parsed.pathname)
  ELSE null

\* !videoId || !/^[a-zA-Z0-9_-]{11}$/.test(videoId), negated
normalizeAcceptsYouTubeId(videoId) ==
  ~Falsy(videoId) /\ Len(videoId) = YouTubeIdLength /\ AllIn(videoId, YouTubeIdChars)

\* normalizeParsedYouTube carrying the query string of the input over.
normalizeParsedYouTube_KeepsQuery(parsed) ==
  LET hostname == toLowerCase(stripWWW(parsed.hostname))
      videoId == normalizeLocateYouTubeId(parsed, hostname)
  IN  IF ~parsed.ok THEN null
      ELSE IF ~normalizeAcceptsYouTubeId(videoId) THEN null
      ELSE "https://www.youtube.com/watch?v=" \o videoId
             \o (IF parsed.search = "" THEN "" ELSE "&" \o From(parsed.search, 2))

\* normalizeYouTubeVideoURL from the parsed URL on.
normalizeParsedYouTube(parsed) ==
  LET hostname == toLowerCase(stripWWW(parsed.hostname))
      videoId == normalizeLocateYouTubeId(parsed, hostname)
  IN  IF ~parsed.ok THEN null
      ELSE IF ~normalizeAcceptsYouTubeId(videoId) THEN null
      ELSE "https://www.youtube.com/watch?v=" \o videoId

normalizeYouTubeVideoURL(inputUrl) ==
  IF notAString(inputUrl) THEN null
  ELSE normalizeParsedYouTube(ParseURL(withHttps(inputUrl)))

youtubeValidDomains == <<"youtube.com", "m.youtube.com", "youtu.be", "music.youtube.com">>

\* validDomains.some(domain => hostname === domain || hostname.endsWith(`.${domain}`))
isYouTubeDomain(hostname) ==
  \E i \in 1..Len(youtubeValidDomains) :
     \/ hostname = youtubeValidDomains[i]
     \/ endsWith(hostname, "." \o youtubeValidDomains[i])

\* isYouTubeURL from the parsed URL on.
isYouTubeParsed(parsed) ==
  IF ~parsed.ok THEN FALSE
  ELSE isYouTubeDomain(toLowerCase(stripWWW(parsed.hostname)))

isYouTubeURL(u) ==
  IF notAString(u) THEN FALSE
  ELSE IF trim(u) = "" THEN FALSE
  ELSE isYouTubeParsed(ParseURL(withHttps(trim(u))))

\* prefixedOrNull answering for the watch form only.
prefixedOrNull_WatchOnly(prefix, videoId) ==
  IF Falsy(videoId) THEN null
  ELSE IF prefix = "https://youtu.be/" THEN prefix \o videoId
  ELSE null

\* if (!videoId) return null; return prefix + videoId
prefixedOrNull(prefix, videoId) ==
  IF Falsy(videoId) THEN null ELSE prefix \o videoId

toYouTubeEmbedURL(u) ==
  prefixedOrNull("https://www.youtube.com/embed/", getYouTubeVideoId(u, NoOptions))

toYouTubeShortURL(u) ==
  prefixedOrNull("https://youtu.be/", getYouTubeVideoId(u, NoOptions))

\* Characters encodeURIComponent leaves as they are.
URIUnreserved == Letters \cup Digits \cup {"-", "_", ".", "!", "~", "*", "'", "(", ")"}

\* The escape of a character of the model's alphabet: '%' and the two
\* upper-case hexadecimal digits of its code.
URIEscape(c) ==
  CASE c = " " -> "%20"
    [] c = "#" -> "%23"
    [] c = "%" -> "%25"
    [] c = "&" -> "%26"
    [] c = "+" -> "%2B"
    [] c = "/" -> "%2F"
    [] c = ":" -> "%3A"
    [] c = "=" -> "%3D"
    [] c = "?" -> "%3F"
    [] c = "@" -> "%40"

RECURSIVE encodeURIComponent(_)
encodeURIComponent(s) ==
  IF s = "" THEN ""
  ELSE (IF Ch(s, 1) \in URIUnreserved THEN Ch(s, 1) ELSE URIEscape(Ch(s, 1)))
       \o encodeURIComponent(From(s, 2))

\* A params object is the sequence of its entries in the order they were
\* inserted; an entry has a key and a string value (str) or a number (num).
\* String(value)
String(entry) ==
  IF "num" \in DOMAIN entry THEN ToString(entry.num) ELSE entry.str

\* The number a string of decimal digits denotes.
RECURSIVE DigitsValue(_, _)
DigitsValue(s, acc) ==
  IF s = "" THEN acc
  ELSE DigitsValue(From(s, 2),
         10 * acc + (CHOOSE d \in 0..9 : ToString(d) = Ch(s, 1)))

\* A key that is an integer index: a canonical numeric string.
isIntegerIndex(key) ==
  /\ key # ""
  /\ AllIn(key, Digits)
  /\ key = "0" \/ Ch(key, 1) # "0"

\* Object.entries(params): own property keys are listed with the integer
\* indices first, in ascending numeric order, then the other string keys
\* in the order of their insertion.
ObjectEntries(params) ==
  SortSeq(SelectSeq(params, LAMBDA e : isIntegerIndex(e.key)),
          LAMBDA a, b : DigitsValue(a.key, 0) < DigitsValue(b.key, 0))
  \o SelectSeq(params, LAMBDA e : ~isIntegerIndex(e.key))

\* .map(([key, value]) => `${encodeURIComponent(key)}=${encodeURIComponent(String(value))}`)
RECURSIVE mapEntries(_)
mapEntries(entries) ==
  IF entries = <<>> THEN <<>>
  ELSE <<encodeURIComponent(Head(entries).key) \o "="
           \o encodeURIComponent(String(Head(entries)))>>
       \o mapEntries(Tail(entries))

generateYouTubeShareURL(videoId, params) ==
  LET paramStr == join(mapEntries(ObjectEntries(params)), "&")
  IN  IF paramStr # "" THEN "https://youtu.be/" \o videoId \o "?" \o paramStr
      ELSE "https://youtu.be/" \o videoId

\* parsed.searchParams.forEach((value, key) => { parameters[key] = value })
parametersOf(parsed) ==
  LET keys == {parsed.query[i][1] : i \in 1..Len(parsed.query)}
      last(k) == CHOOSE i \in 1..Len(parsed.query) :
                   /\ parsed.query[i][1] = k
                   /\ \A j \in 1..Len(parsed.query) : parsed.query[j][1] = k => j <= i
  IN  [k \in keys |-> parsed.query[last(k)][2]]

\* x || undefined
orUndefined(x) == IF Falsy(x) THEN null ELSE x

\* The components parseYouTubeURL returns; undefined fields are null.
Components(type, videoId, playlistId, channelId, parameters, isEmbed, originalUrl) ==
  [type |-> type, videoId |-> videoId, playlistId |-> playlistId,
   channelId |-> channelId, parameters |-> parameters, isEmbed |-> isEmbed,
   originalUrl |-> originalUrl]

\* The result of the catch branch of parseYouTubeURL.
unknownComponents(u) ==
  Components("unknown", null, null, null, <<>>, FALSE, u)

\* parseYouTubeURL from the parsed URL on.
parseParsedYouTube(parsed, u) ==
  LET hostname == toLowerCase(stripWWW(parsed.hostname))
      main == hostname = "youtube.com" \/ hostname = "m.youtube.com"
      pathname == parsed.pathname
      parameters == parametersOf(parsed)
      third == At(split(pathname, "/"), 2)
  IN  IF ~parsed.ok THEN unknownComponents(u)
      ELSE IF main /\ pathname = "/watch"
        THEN Components("video", orUndefined(searchParamsGet(parsed, "v")), null, null,
                        parameters, FALSE, u)
      ELSE IF hostname = "youtu.be"
        THEN Components("video", stripSlashes(pathname), null, null, parameters, FALSE, u)
      ELSE IF main /\ startsWith(pathname, "/shorts/")
        THEN Components("short", third, null, null, parameters, FALSE, u)
      ELSE IF main /\ startsWith(pathname, "/embed/")
        THEN Components("video", third, null, null, parameters, TRUE, u)
      ELSE IF main /\ startsWith(pathname, "/live/")
        THEN Components("live", third, null, null, parameters, FALSE, u)
      ELSE IF main /\ startsWith(pathname, "/playlist")
        THEN Components("playlist", null, orUndefined(searchParamsGet(parsed, "list")), null,
                        parameters, FALSE, u)
      ELSE IF main /\ startsWith(pathname, "/channel/")
        THEN Components("channel", null, null, third, parameters, FALSE, u)
      ELSE Components("unknown", null, null, null, parameters, FALSE, u)

\* url.startsWith on a value that is no string is a TypeError inside the
\* try block, as is a failure of new URL: both end in the catch branch.
parseYouTubeURL(u) ==
  IF ~isString(u) THEN unknownComponents(u)
  ELSE parseParsedYouTube(ParseURL(withHttps(u)), u)

\* isYouTubeEmbedURL from the parsed URL on.
isEmbedParsed(parsed) ==
  IF ~parsed.ok THEN FALSE
  ELSE IF toLowerCase(stripWWW(parsed.hostname)) # "youtube.com" THEN FALSE
  ELSE startsWith(parsed.pathname, "/embed/")

isYouTubeEmbedURL(u) ==
  IF notAString(u) THEN FALSE
  ELSE isEmbedParsed(ParseURL(withHttps(u)))

(***************************************************************************)
(* TikTok (src/src/utils/tiktok/index.ts).                                 *)
(***************************************************************************)
\* The number of digits in TIKTOK_VIDEO_ID_REGEX.
TikTokIdLength == 19
\* The bounds of the quantifier in TIKTOK_USERNAME_REGEX.
TikTokUsernameMin == 2
TikTokUsernameMax == 24
MAX_USERNAME_LENGTH == 24

TikTokUsernameChars == Letters \cup Digits \cup {".", "_"}

\* The flag that makes a regular expression keep its position between
\* tests.
GlobalFlag == "g"

\* The flags of the two regular expressions of the module: none.
TIKTOK_VIDEO_ID_FLAGS == ""
TIKTOK_USERNAME_FLAGS == ""

\* A regular expression reads and writes its lastIndex property only under
\* the flags g and y.
usesLastIndex(flags) == \E i \in 1..Len(flags) : Ch(flags, i) \in {"g", "y"}

\* The position at which test starts to match.
RegExpStart(flags, index) == IF usesLastIndex(flags) THEN index ELSE 0

\* The lastIndex property after test on s: left alone without the flags g
\* and y, otherwise the end of the match (the end of s, the expressions
\* being anchored by $) or 0 after a failure.
RegExpLastIndex(flags, index, matched, s) ==
  IF ~usesLastIndex(flags) THEN index
  ELSE IF matched THEN Len(s) ELSE 0

\* TIKTOK_VIDEO_ID_REGEX.test(s): anchored by ^, it matches only from
\* position 0.
TIKTOK_VIDEO_ID_REGEX(s) ==
  /\ RegExpStart(TIKTOK_VIDEO_ID_FLAGS, lastIndex.videoId) = 0
  /\ Len(s) = TikTokIdLength
  /\ AllIn(s, Digits)

\* TIKTOK_USERNAME_REGEX.test(s)
TIKTOK_USERNAME_REGEX(s) ==
  /\ RegExpStart(TIKTOK_USERNAME_FLAGS, lastIndex.username) = 0
  /\ Len(s) >= TikTokUsernameMin
  /\ Len(s) <= TikTokUsernameMax
  /\ AllIn(s, TikTokUsernameChars)

isValidTikTokUsername(username) ==
  IF notAString(username) THEN FALSE
  ELSE LET cleanUsername == stripAt(username)
       IN  TIKTOK_USERNAME_REGEX(cleanUsername) /\ Len(cleanUsername) <= MAX_USERNAME_LENGTH

isValidTikTokVideoId(videoId) ==
  IF notAString(videoId) THEN FALSE ELSE TIKTOK_VIDEO_ID_REGEX(trim(videoId))

\* The lastIndex properties after isValidTikTokVideoId(videoId).
testedVideoId(index, videoId) ==
  IF notAString(videoId) THEN index
  ELSE [index EXCEPT !.videoId =
          RegExpLastIndex(TIKTOK_VIDEO_ID_FLAGS, @,
                          TIKTOK_VIDEO_ID_REGEX(trim(videoId)), trim(videoId))]

\* The lastIndex properties after isValidTikTokUsername(username).
testedUsername(index, username) ==
  IF notAString(username) THEN index
  ELSE [index EXCEPT !.username =
          RegExpLastIndex(TIKTOK_USERNAME_FLAGS, @,
                          TIKTOK_USERNAME_REGEX(stripAt(username)), stripAt(username))]

tiktokAllowedHosts == {"tiktok.com", "vm.tiktok.com"}

\* The identifier and the username isValidTikTokVideoURL locates.
validateLocateTikTok(parsed, hostname) ==
  IF hostname = "tiktok.com"
    THEN LET pathParts == filterBoolean(split(parsed.pathname, "/"))
         IN  IF Len(pathParts) >= 3 /\ pathParts[2] = "video"
               THEN [videoId |-> pathParts[3], username |-> stripAt(pathParts[1])]
             ELSE IF Len(pathParts) >= 4 /\ pathParts[3] = "video"
               THEN [videoId |-> pathParts[4], username |-> stripAt(pathParts[2])]
             ELSE [videoId |-> null, username |-> null]
  ELSE IF hostname = "vm.tiktok.com"
    THEN [videoId |-> stripSlashes(parsed.pathname), username |-> null]
  ELSE [videoId |-> null, username |-> null]

\* validateParsedTikTok without the test of the query string.
validateParsedTikTok_IgnoresQuery(parsed, options) ==
  LET hostname == stripWWW(toLowerCase(parsed.hostname))
      located == validateLocateTikTok(parsed, hostname)
  IN  IF ~parsed.ok THEN FALSE
      ELSE IF hostname \notin tiktokAllowedHosts THEN FALSE
      ELSE IF Falsy(located.videoId) \/ ~isValidTikTokVideoId(located.videoId) THEN FALSE
      ELSE IF ~Falsy(located.username) /\ ~isValidTikTokUsername(located.username) THEN FALSE
      ELSE TRUE

\* isValidTikTokVideoURL from the parsed URL on.
validateParsedTikTok(parsed, options) ==
  LET allowQueryParams == Opt(options, "allowQueryParams")
      hostname == stripWWW(toLowerCase(parsed.hostname))
      located == validateLocateTikTok(parsed, hostname)
  IN  IF ~parsed.ok THEN FALSE
      ELSE IF hostname \notin tiktokAllowedHosts THEN FALSE
      ELSE IF Falsy(located.videoId) \/ ~isValidTikTokVideoId(located.videoId) THEN FALSE
      ELSE IF ~Falsy(located.username) /\ ~isValidTikTokUsername(located.username) THEN FALSE
      ELSE IF ~allowQueryParams /\ parsed.search # "" THEN FALSE
      ELSE TRUE

isValidTikTokVideoURL(u, options) ==
  IF notAString(u) THEN FALSE
  ELSE IF ~hasProtocol(trim(u)) /\ ~Opt(options, "allowNoProtocol") THEN FALSE
  ELSE validateParsedTikTok(ParseURL(addProtocol(trim(u))), options)

\* extractLocateTikTokId without the form that starts with a locale.
extractLocateTikTokId_NoLocale(parsed, hostname) ==
  IF hostname = "tiktok.com"
    THEN LET pathParts == filterBoolean(split(parsed.pathname, "/"))
         IN  IF Len(pathParts) >= 3 /\ pathParts[2] = "video" THEN pathParts[3]
             ELSE null
  ELSE IF hostname = "vm.tiktok.com"
    THEN stripSlashes(parsed.pathname)
  ELSE null

\* The identifier getTikTokVideoId locates.
extractLocateTikTokId(parsed, hostname) ==
  IF hostname = "tiktok.com"
    THEN LET pathParts == filterBoolean(split(parsed.pathname, "/"))
         IN  IF Len(pathParts) >= 3 /\ pathParts[2] = "video" THEN pathParts[3]
             ELSE IF Len(pathParts) >= 4 /\ pathParts[3] = "video" THEN pathParts[4]
             ELSE null
  ELSE IF hostname = "vm.tiktok.com"
    THEN stripSlashes(parsed.pathname)
  ELSE null

\* getTikTokVideoId from the parsed URL on.
extractParsedTikTok(parsed, options) ==
  LET allowQueryParams == Opt(options, "allowQueryParams")
      hostname == stripWWW(toLowerCase(parsed.hostname))
      videoId == extractLocateTikTokId(parsed, hostname)
  IN  IF ~parsed.ok THEN null
      ELSE IF hostname \notin tiktokAllowedHosts THEN null
      ELSE IF Falsy(videoId) \/ ~isValidTikTokVideoId(videoId) THEN null
      ELSE IF ~allowQueryParams /\ parsed.search # "" THEN null
      ELSE videoId

getTikTokVideoId(u, options) ==
  IF notAString(u) THEN null
  ELSE IF ~hasProtocol(trim(u)) /\ ~Opt(options, "allowNoProtocol") THEN null
  ELSE extractParsedTikTok(ParseURL(addProtocol(trim(u))), options)

\* The identifier and the username normalizeTikTokVideoURL locates.
normalizeLocateTikTok(parsed, hostname) ==
  IF hostname = "tiktok.com"
    THEN LET pathParts == filterBoolean(split(parsed.pathname, "/"))
         IN  IF Len(pathParts) >= 3 /\ pathParts[2] = "video"
               THEN [videoId |-> pathParts[3], username |-> stripAt(pathParts[1])]
             ELSE IF Len(pathParts) >= 4 /\ pathParts[3] = "video"
               THEN [videoId |-> pathParts[4], username |-> stripAt(pathParts[2])]
             ELSE [videoId |-> null, username |-> null]
  ELSE IF hostname = "vm.tiktok.com"
    THEN [videoId |-> stripSlashes(parsed.pathname), username |-> null]
  ELSE [videoId |-> null, username |-> null]

\* normalizeTikTokUsername keeping a username that fails the test.
normalizeTikTokUsername_KeepsInvalid(username) ==
  IF Falsy(username) THEN "user" ELSE username

\* if (!username || !isValidTikTokUsername(username)) username = 'user'
normalizeTikTokUsername(username) ==
  IF Falsy(username) \/ ~isValidTikTokUsername(username) THEN "user" ELSE username

\* normalizeTikTokVideoURL from the parsed URL on.
normalizeParsedTikTok(parsed) ==
  LET hostname == toLowerCase(stripWWW(parsed.hostname))
      located == normalizeLocateTikTok(parsed, hostname)
  IN  IF ~parsed.ok THEN null
      ELSE IF hostname \notin tiktokAllowedHosts THEN null
      ELSE IF Falsy(located.videoId) \/ ~isValidTikTokVideoId(located.videoId) THEN null
      ELSE "https://www.tiktok.com/@" \o normalizeTikTokUsername(located.username)
             \o "/video/" \o located.videoId

normalizeTikTokVideoURL(inputUrl) ==
  IF notAString(inputUrl) THEN null
  ELSE normalizeParsedTikTok(ParseURL(withHttps(inputUrl)))

\* The array isTikTokURL tests the hostname against.
tiktokURLHosts == <<"tiktok.com", "vm.tiktok.com">>

\* isTikTokParsed accepting every subdomain of tiktok.com.
isTikTokParsed_Subdomains(parsed) ==
  IF ~parsed.ok THEN FALSE
  ELSE \/ stripWWW(toLowerCase(parsed.hostname)) = "tiktok.com"
       \/ endsWith(stripWWW(toLowerCase(parsed.hostname)), ".tiktok.com")

\* isTikTokURL from the parsed URL on.
isTikTokParsed(parsed) ==
  IF ~parsed.ok THEN FALSE
  ELSE \E i \in 1..Len(tiktokURLHosts) :
         tiktokURLHosts[i] = stripWWW(toLowerCase(parsed.hostname))

isTikTokURL(u) ==
  IF notAString(u) THEN FALSE
  ELSE isTikTokParsed(ParseURL(addProtocol(trim(u))))

\* throw new Error(message)
Throw(message) == "<Error: " \o message \o ">"

\* generateTikTokShareURL embedding the identifier as it was given.
generateTikTokShareURL_Untrimmed(videoId) ==
  IF Falsy(videoId) \/ ~isValidTikTokVideoId(trim(videoId))
    THEN Throw("Invalid TikTok video ID")
    ELSE "https://vm.tiktok.com/" \o videoId

generateTikTokShareURL(videoId) ==
  IF Falsy(videoId) \/ ~isValidTikTokVideoId(trim(videoId))
    THEN Throw("Invalid TikTok video ID")
    ELSE "https://vm.tiktok.com/" \o trim(videoId)

\* The lastIndex properties after the tests of a located identifier and,
\* where the operation tests it, of a located username.
testedLocated(parsed, hostname, located, withUsername) ==
  IF ~parsed.ok \/ hostname \notin tiktokAllowedHosts THEN lastIndex
  ELSE IF Falsy(located.videoId) THEN lastIndex
  ELSE IF ~isValidTikTokVideoId(located.videoId)
    THEN testedVideoId(lastIndex, located.videoId)
  ELSE IF withUsername /\ ~Falsy(located.username)
    THEN testedUsername(testedVideoId(lastIndex, located.videoId), located.username)
  ELSE testedVideoId(lastIndex, located.videoId)

\* The lastIndex properties of the two regular expressions after a call of
\* each operation that tests them.
testedValidate(parsed, hostname) ==
  testedLocated(parsed, hostname, validateLocateTikTok(parsed, hostname), TRUE)

testedExtract(parsed, hostname) ==
  testedLocated(parsed, hostname,
                [videoId |-> extractLocateTikTokId(parsed, hostname), username |-> null],
                FALSE)

testedNormalize(parsed, hostname) ==
  testedLocated(parsed, hostname, normalizeLocateTikTok(parsed, hostname), TRUE)

hostnameOf(parsed) == stripWWW(toLowerCase(parsed.hostname))

testedParsed(parsed, operation) ==
  CASE operation = "validate" -> testedValidate(parsed, hostnameOf(parsed))
    [] operation = "extract" -> testedExtract(parsed, hostnameOf(parsed))
    [] operation = "normalize" -> testedNormalize(parsed, hostnameOf(parsed))

\* Whether a test of either regular expression can move its lastIndex.
keepsPosition ==
  usesLastIndex(TIKTOK_VIDEO_ID_FLAGS) \/ usesLastIndex(TIKTOK_USERNAME_FLAGS)

lastIndexAfterValidate(u, options) ==
  IF ~keepsPosition \/ notAString(u) THEN lastIndex
  ELSE IF ~hasProtocol(trim(u)) /\ ~Opt(options, "allowNoProtocol") THEN lastIndex
  ELSE testedParsed(ParseURL(addProtocol(trim(u))), "validate")

lastIndexAfterExtract(u, options) ==
  IF ~keepsPosition \/ notAString(u) THEN lastIndex
  ELSE IF ~hasProtocol(trim(u)) /\ ~Opt(options, "allowNoProtocol") THEN lastIndex
  ELSE testedParsed(ParseURL(addProtocol(trim(u))), "extract")

lastIndexAfterNormalize(inputUrl) ==
  IF ~keepsPosition \/ notAString(inputUrl) THEN lastIndex
  ELSE testedParsed(ParseURL(withHttps(inputUrl)), "normalize")

lastIndexAfterShare(videoId) ==
  IF ~keepsPosition \/ Falsy(videoId) THEN lastIndex ELSE testedVideoId(lastIndex, trim(videoId))

(***************************************************************************)
(* The inputs of the model.  An input is assembled from parts, so that a   *)
(* property can speak of the form, the identifier or the username an       *)
(* input was written with; the operations see only the string.             *)
(***************************************************************************)
RECURSIVE Repeat(_, _)
Repeat(c, n) == IF n = 0 THEN "" ELSE c \o Repeat(c, n - 1)

Schemes == {"", "https://", "http://", "HTTPS://"}
WWWs == {"", "www."}

\* YouTube identifiers: well-formed, one character repeated, too short,
\* with a character outside the class.
GoodYouTubeId == "dQw4w9WgXcQ"
OtherYouTubeId == "abcde-fghij"
YouTubeIds == {GoodYouTubeId, "aaaaaaaaaaa", "dQw4w9WgXc", "dQw4w9WgX!Q"}

YouTubeHosts == {"youtube.com", "m.youtube.com", "youtu.be", "music.youtube.com",
                 "YouTube.com", "vimeo.com", "gaming.youtube.com", "notyoutube.com",
                 "youtube.example.com"}
YouTubeForms == {"watch", "shorts", "embed", "live", "bare", "none"}
YouTubeQueries == {"none", "v", "v&t", "t&v", "t", "v&v"}

YouTubePath(form, id) ==
  CASE form = "watch" -> "/watch"
    [] form = "shorts" -> "/shorts/" \o id
    [] form = "embed" -> "/embed/" \o id
    [] form = "live" -> "/live/" \o id
    [] form = "bare" -> "/" \o id
    [] form = "none" -> ""
    [] form = "playlist" -> "/playlist"
    [] form = "channel" -> "/channel/" \o id

YouTubeQuery(query, id) ==
  CASE query = "none" -> ""
    [] query = "v" -> "?v=" \o id
    [] query = "v&t" -> "?v=" \o id \o "&t=120s"
    [] query = "t&v" -> "?t=120s&v=" \o id
    [] query = "t" -> "?t=120s"
    [] query = "v&v" -> "?v=" \o id \o "&v=" \o OtherYouTubeId
    [] query = "list" -> "?list=" \o id
    [] query = "list&v" -> "?list=" \o id \o "&v=" \o OtherYouTubeId

\* Every scheme, prefix, host and padding, on the three forms of a
\* well-formed identifier and on the bare hostname.
YouTubeHostInputs ==
  {[platform |-> "youtube", pad |-> p, scheme |-> s, www |-> w, host |-> h,
    form |-> f[1], query |-> f[2], id |-> GoodYouTubeId, slash |-> 0] :
     p \in 0..MaxPad, s \in Schemes, w \in WWWs, h \in YouTubeHosts,
     f \in {<<"watch", "v">>, <<"bare", "none">>, <<"shorts", "none">>, <<"none", "none">>}}

\* Every form, query and identifier on the two kinds of host, with trailing
\* slashes after the well-formed identifier.
YouTubePathInputs ==
  {p \in [platform : {"youtube"}, pad : {0}, scheme : {"https://"}, www : {"www."},
          host : {"youtube.com", "youtu.be"}, form : YouTubeForms, query : YouTubeQueries,
          id : YouTubeIds, slash : 0..MaxSlash] :
     p.slash > 0 => p.id = GoodYouTubeId}

\* Playlist and channel identifiers, and the empty identifier.
ListIds == {"PLrAXtmErZgOe", "UC_x5XG1OV2P6", ""}

\* Playlist, channel, embed and watch URLs as parseYouTubeURL and
\* isYouTubeEmbedURL read them.
YouTubeListInputs ==
  {[platform |-> "youtube", pad |-> 0, scheme |-> s, www |-> "www.", host |-> h,
    form |-> f[1], query |-> f[2], id |-> i, slash |-> n] :
     s \in {"https://"}, h \in {"youtube.com", "m.youtube.com", "youtu.be"},
     f \in {<<"playlist", "list">>, <<"playlist", "none">>, <<"playlist", "list&v">>,
            <<"channel", "none">>, <<"embed", "none">>, <<"watch", "v">>, <<"watch", "list">>},
     i \in ListIds, n \in 0..MaxSlash}

\* Embed URLs over every scheme, prefix and padding.
YouTubeEmbedInputs ==
  {[platform |-> "youtube", pad |-> p, scheme |-> s, www |-> w, host |-> h,
    form |-> "embed", query |-> "none", id |-> GoodYouTubeId, slash |-> 0] :
     p \in 0..MaxPad, s \in Schemes, w \in WWWs,
     h \in {"youtube.com", "m.youtube.com", "YouTube.com"}}

\* TikTok identifiers: well-formed, one digit short, not digits.
GoodTikTokId == "1234567890123456789"
TikTokIds == {GoodTikTokId, "123456789012345678", "invalid-id"}

\* Username segments as written in the path.
TikTokUsers == {"@username", "username", "@finger.down89", "@a", "@user!", "@", "@@ab",
                "@abcdefghijklmnopqrstuvwx", "@abcdefghijklmnopqrstuvwxy"}
TikTokHosts == {"tiktok.com", "vm.tiktok.com", "m.tiktok.com", "music.tiktok.com",
                "youtube.com"}
TikTokForms == {"video", "locale", "short", "novideo", "after"}
TikTokQueries == {"", "?", "?is_from_webapp=1"}

TikTokPath(form, user, id) ==
  CASE form = "video" -> "/" \o user \o "/video/" \o id
    [] form = "locale" -> "/en/" \o user \o "/video/" \o id
    [] form = "short" -> "/" \o id
    [] form = "novideo" -> "/" \o user \o "/" \o id
    [] form = "after" -> "/" \o user \o "/video/" \o id \o "/embed"
    [] form = "videolast" -> "/" \o user \o "/video"
    [] form = "videofirst" -> "/video/" \o id
    [] form = "deep" -> "/a/en/" \o user \o "/video/" \o id

TikTokHostInputs ==
  {[platform |-> "tiktok", pad |-> p, scheme |-> s, www |-> w, host |-> h,
    form |-> f, user |-> "@username", query |-> "", id |-> GoodTikTokId, slash |-> 0] :
     p \in 0..MaxPad, s \in Schemes, w \in WWWs, h \in TikTokHosts,
     f \in {"video", "short"}}

TikTokPathInputs ==
  {p \in [platform : {"tiktok"}, pad : {0}, scheme : {"https://"}, www : {"www."},
          host : {"tiktok.com"}, form : TikTokForms \ {"short"}, user : TikTokUsers,
          query : TikTokQueries, id : TikTokIds, slash : 0..MaxSlash] :
     p.slash > 0 => p.id = GoodTikTokId}
  \cup
  {[platform |-> "tiktok", pad |-> 0, scheme |-> "https://", www |-> "", host |-> "vm.tiktok.com",
    form |-> "short", user |-> "", query |-> q, id |-> i, slash |-> n] :
     q \in TikTokQueries, i \in TikTokIds, n \in 0..MaxSlash}

\* Paths with `video` at a position where no identifier is located.
TikTokEdgeInputs ==
  {[platform |-> "tiktok", pad |-> 0, scheme |-> "https://", www |-> "www.", host |-> "tiktok.com",
    form |-> f, user |-> "@username", query |-> "", id |-> GoodTikTokId, slash |-> n] :
     f \in {"videolast", "videofirst", "deep"}, n \in 0..MaxSlash}

\* Inputs that are no URL of either platform: null, a number, empty, blank,
\* a word.
RawInputs ==
  {[platform |-> "raw", text |-> x] : x \in {null, number, "", " ", "invalid-url"}}

YouTubeInputs == YouTubeHostInputs \cup YouTubePathInputs \cup RawInputs
TikTokInputs == TikTokHostInputs \cup TikTokPathInputs \cup TikTokEdgeInputs \cup RawInputs

\* The string of an input.
Render(p) ==
  IF p.platform = "raw" THEN p.text
  ELSE Repeat(" ", p.pad) \o p.scheme \o p.www \o p.host
       \o (IF p.platform = "youtube"
             THEN YouTubePath(p.form, p.id) \o Repeat("/", p.slash) \o YouTubeQuery(p.query, p.id)
             ELSE TikTokPath(p.form, p.user, p.id) \o Repeat("/", p.slash) \o p.query)
       \o Repeat(" ", p.pad)

\* Arguments of generateTikTokShareURL.
ShareIdInputs ==
  {[platform |-> "raw", text |-> x] : x \in {null, ""}}
  \cup {[platform |-> "raw", text |-> Repeat(" ", p) \o i \o Repeat(" ", p)] :
          p \in 0..MaxPad, i \in TikTokIds}

\* Arguments of generateYouTubeShareURL: an identifier, well-formed or not,
\* and a params object of at most MaxParams entries with distinct keys.
ShareEntries ==
  {[key |-> "t", num |-> 120], [key |-> "foo", str |-> "bar"],
   [key |-> "list", str |-> "a b&c"], [key |-> "a=b", str |-> "2m3s"],
   [key |-> "1", str |-> "x"], [key |-> "0", str |-> "y"]}

ShareParams ==
  {ps \in UNION {[1..n -> ShareEntries] : n \in 0..MaxParams} :
     \A i, j \in 1..Len(ps) : i # j => ps[i].key # ps[j].key}

ShareInputs ==
  {[platform |-> "share", id |-> i, params |-> ps] :
     i \in {GoodYouTubeId, "not an id"}, ps \in ShareParams}

(***************************************************************************)
(* The state machine: a call of one operation on one input, its return.    *)
(* The library keeps no state between calls.                               *)
(***************************************************************************)
NoParts == [platform |-> "none"]

Init ==
  /\ pc = "idle"
  /\ op = "none"
  /\ parts = NoParts
  /\ url = null
  /\ opts = NoOptions
  /\ result = null
  /\ lastIndex = [videoId |-> 0, username |-> 0]

CallIsValidYouTubeVideoURL ==
  /\ pc = "idle"
  /\ \E p \in YouTubeInputs, o \in OptionsSet :
       /\ parts' = p
       /\ url' = Render(p)
       /\ opts' = o
       /\ result' = isValidYouTubeVideoURL(Render(p), o)
  /\ op' = "isValidYouTubeVideoURL"
  /\ pc' = "returned"
  /\ UNCHANGED lastIndex

CallGetYouTubeVideoId ==
  /\ pc = "idle"
  /\ \E p \in YouTubeInputs, o \in OptionsSet :
       /\ parts' = p
       /\ url' = Render(p)
       /\ opts' = o
       /\ result' = getYouTubeVideoId(Render(p), o)
  /\ op' = "getYouTubeVideoId"
  /\ pc' = "returned"
  /\ UNCHANGED lastIndex

CallNormalizeYouTubeVideoURL ==
  /\ pc = "idle"
  /\ \E p \in YouTubeInputs :
       /\ parts' = p
       /\ url' = Render(p)
       /\ opts' = NoOptions
       /\ result' = normalizeYouTubeVideoURL(Render(p))
  /\ op' = "normalizeYouTubeVideoURL"
  /\ pc' = "returned"
  /\ UNCHANGED lastIndex

CallIsYouTubeURL ==
  /\ pc = "idle"
  /\ \E p \in YouTubeInputs :
       /\ parts' = p
       /\ url' = Render(p)
       /\ opts' = NoOptions
       /\ result' = isYouTubeURL(Render(p))
  /\ op' = "isYouTubeURL"
  /\ pc' = "returned"
  /\ UNCHANGED lastIndex

CallToYouTubeEmbedURL ==
  /\ pc = "idle"
  /\ \E p \in YouTubeInputs :
       /\ parts' = p
       /\ url' = Render(p)
       /\ opts' = NoOptions
       /\ result' = toYouTubeEmbedURL(Render(p))
  /\ op' = "toYouTubeEmbedURL"
  /\ pc' = "returned"
  /\ UNCHANGED lastIndex

CallToYouTubeShortURL ==
  /\ pc = "idle"
  /\ \E p \in YouTubeInputs :
       /\ parts' = p
       /\ url' = Render(p)
       /\ opts' = NoOptions
       /\ result' = toYouTubeShortURL(Render(p))
  /\ op' = "toYouTubeShortURL"
  /\ pc' = "returned"
  /\ UNCHANGED lastIndex

CallIsValidTikTokVideoURL ==
  /\ pc = "idle"
  /\ \E p \in TikTokInputs, o \in OptionsSet :
       /\ parts' = p
       /\ url' = Render(p)
       /\ opts' = o
       /\ result' = isValidTikTokVideoURL(Render(p), o)
       /\ lastIndex' = lastIndexAfterValidate(Render(p), o)
  /\ op' = "isValidTikTokVideoURL"
  /\ pc' = "returned"

CallGetTikTokVideoId ==
  /\ pc = "idle"
  /\ \E p \in TikTokInputs, o \in OptionsSet :
       /\ parts' = p
       /\ url' = Render(p)
       /\ opts' = o
       /\ result' = getTikTokVideoId(Render(p), o)
       /\ lastIndex' = lastIndexAfterExtract(Render(p), o)
  /\ op' = "getTikTokVideoId"
  /\ pc' = "returned"

CallNormalizeTikTokVideoURL ==
  /\ pc = "idle"
  /\ \E p \in TikTokInputs :
       /\ parts' = p
       /\ url' = Render(p)
       /\ opts' = NoOptions
       /\ result' = normalizeTikTokVideoURL(Render(p))
       /\ lastIndex' = lastIndexAfterNormalize(Render(p))
  /\ op' = "normalizeTikTokVideoURL"
  /\ pc' = "returned"

CallGenerateTikTokShareURL ==
  /\ pc = "idle"
  /\ \E p \in ShareIdInputs :
       /\ parts' = p
       /\ url' = Render(p)
       /\ opts' = NoOptions
       /\ result' = generateTikTokShareURL(Render(p))
       /\ lastIndex' = lastIndexAfterShare(Render(p))
  /\ op' = "generateTikTokShareURL"
  /\ pc' = "returned"

CallGenerateYouTubeShareURL ==
  /\ pc = "idle"
  /\ \E p \in ShareInputs :
       /\ parts' = p
       /\ url' = p.id
       /\ opts' = NoOptions
       /\ result' = generateYouTubeShareURL(p.id, p.params)
  /\ op' = "generateYouTubeShareURL"
  /\ pc' = "returned"
  /\ UNCHANGED lastIndex

CallParseYouTubeURL ==
  /\ pc = "idle"
  /\ \E p \in YouTubeInputs \cup YouTubeListInputs \cup YouTubeEmbedInputs :
       /\ parts' = p
       /\ url' = Render(p)
       /\ opts' = NoOptions
       /\ result' = parseYouTubeURL(Render(p))
  /\ op' = "parseYouTubeURL"
  /\ pc' = "returned"
  /\ UNCHANGED lastIndex

CallIsYouTubeEmbedURL ==
  /\ pc = "idle"
  /\ \E p \in YouTubeInputs \cup YouTubeListInputs \cup YouTubeEmbedInputs :
       /\ parts' = p
       /\ url' = Render(p)
       /\ opts' = NoOptions
       /\ result' = isYouTubeEmbedURL(Render(p))
  /\ op' = "isYouTubeEmbedURL"
  /\ pc' = "returned"
  /\ UNCHANGED lastIndex

CallIsTikTokURL ==
  /\ pc = "idle"
  /\ \E p \in TikTokInputs :
       /\ parts' = p
       /\ url' = Render(p)
       /\ opts' = NoOptions
       /\ result' = isTikTokURL(Render(p))
  /\ op' = "isTikTokURL"
  /\ pc' = "returned"
  /\ UNCHANGED lastIndex

\* The call has returned; the next call starts from the same state as the first.
Return ==
  /\ pc = "returned"
  /\ pc' = "idle"
  /\ op' = "none"
  /\ parts' = NoParts
  /\ url' = null
  /\ opts' = NoOptions
  /\ result' = null
  /\ UNCHANGED lastIndex

Next ==
  \/ CallIsValidYouTubeVideoURL
  \/ CallGetYouTubeVideoId
  \/ CallNormalizeYouTubeVideoURL
  \/ CallIsYouTubeURL
  \/ CallToYouTubeEmbedURL
  \/ CallToYouTubeShortURL
  \/ CallIsValidTikTokVideoURL
  \/ CallGetTikTokVideoId
  \/ CallNormalizeTikTokVideoURL
  \/ CallGenerateTikTokShareURL
  \/ CallGenerateYouTubeShareURL
  \/ CallParseYouTubeURL
  \/ CallIsYouTubeEmbedURL
  \/ CallIsTikTokURL
  \/ Return

Spec == Init /\ [][Next]_vars

(***************************************************************************)
(* Properties.                                                             *)
(***************************************************************************)
Returned(name) == pc = "returned" /\ op = name

\* The text of s after a prefix of the length of prefix.
After(s, prefix) == From(s, Len(prefix) + 1)

\* The text of s after its last '/'.
LastSegment(s) == From(s, FindBack(s, {"/"}, Len(s)) + 1)

\* The shape of a YouTube identifier: 11 characters of [A-Za-z0-9_-], not
\* all the same.
YouTubeIdShape(id) ==
  /\ Len(id) = 11
  /\ \A i \in 1..Len(id) : Ch(id, i) \in Letters \cup Digits \cup {"_", "-"}
  /\ \E i \in 1..Len(id) : Ch(id, i) # Ch(id, 1)

\* The shape of a TikTok identifier: 19 decimal digits.
TikTokIdShape(id) ==
  Len(id) = 19 /\ \A i \in 1..Len(id) : Ch(id, i) \in Digits

\* The shape of a TikTok username: 2 to 24 characters of [A-Za-z0-9._].
TikTokUsernameShape(name) ==
  /\ Len(name) \in 2..24
  /\ \A i \in 1..Len(name) : Ch(name, i) \in Letters \cup Digits \cup {".", "_"}

\* A username segment without its optional leading '@'.
WithoutAt(segment) ==
  IF Len(segment) > 0 /\ Ch(segment, 1) = "@" THEN From(segment, 2) ELSE segment

CanonicalYouTube == "https://www.youtube.com/watch?v="
CanonicalTikTok == "https://www.tiktok.com/@"

\* C1: every identifier an operation returns, embeds in its output or
\* accepts has the shape of its platform: YouTube identifiers have 11
\* characters of [A-Za-z0-9_-], not all the same; TikTok identifiers have
\* 19 digits.
C1_IdentifierShape ==
  pc = "returned" =>
    /\ op = "getYouTubeVideoId" /\ result # null => YouTubeIdShape(result)
    /\ op = "normalizeYouTubeVideoURL" /\ result # null
         => YouTubeIdShape(After(result, CanonicalYouTube))
    /\ op = "toYouTubeEmbedURL" /\ result # null
         => YouTubeIdShape(After(result, "https://www.youtube.com/embed/"))
    /\ op = "toYouTubeShortURL" /\ result # null
         => YouTubeIdShape(After(result, "https://youtu.be/"))
    /\ op = "isValidYouTubeVideoURL" /\ result = TRUE
         => parts.platform = "youtube" /\ YouTubeIdShape(parts.id)
    /\ op = "getTikTokVideoId" /\ result # null => TikTokIdShape(result)
    /\ op = "normalizeTikTokVideoURL" /\ result # null => TikTokIdShape(LastSegment(result))
    /\ op = "isValidTikTokVideoURL" /\ result = TRUE
         => parts.platform = "tiktok" /\ TikTokIdShape(parts.id)
    /\ op = "generateTikTokShareURL" /\ result # Throw("Invalid TikTok video ID")
         => TikTokIdShape(After(result, "https://vm.tiktok.com/"))

\* C2: whenever isValidYouTubeVideoURL accepts a URL under some options,
\* getYouTubeVideoId on the same URL and options returns an identifier, and
\* that identifier has the YouTube shape.
C2_ValidateImpliesExtract ==
  Returned("isValidYouTubeVideoURL") /\ result = TRUE =>
    /\ getYouTubeVideoId(url, opts) # null
    /\ YouTubeIdShape(getYouTubeVideoId(url, opts))

\* A youtu.be URL was accepted under options that forbid a missing protocol.
C2_Witness ==
  /\ Returned("isValidYouTubeVideoURL")
  /\ result = TRUE
  /\ parts.host = "youtu.be"
  /\ opts # NoOptions
  /\ ~opts["allowNoProtocol"]

\* The query of an input has a key other than v.
HasKeyOtherThanV(p) == p.query \in {"v&t", "t&v", "t"}

\* { allowQueryParams: false }, the other options at their defaults.
OnlyQueryParamsOff ==
  [allowNoProtocol |-> TRUE, allowNoWWW |-> TRUE, allowQueryParams |-> FALSE]

\* C3: for a URL that isValidYouTubeVideoURL accepts under the default
\* options, isValidYouTubeVideoURL with allowQueryParams false is false if
\* the URL has a query key other than v, and true otherwise.
C3_QueryParamsOption ==
  /\ Returned("isValidYouTubeVideoURL")
  /\ opts = OnlyQueryParamsOff
  /\ isValidYouTubeVideoURL(url, NoOptions)
  => result = ~HasKeyOtherThanV(parts)

\* An input is one of the recognized forms of a well-formed identifier:
\* watch on youtube.com or m.youtube.com, youtu.be/<id>, youtube.com/shorts/<id>,
\* with or without a lower-case scheme, a www. prefix and further query
\* parameters.
RecognizedYouTubeForm(p) ==
  /\ p.platform = "youtube"
  /\ YouTubeIdShape(p.id)
  /\ p.pad = 0
  /\ p.scheme \in {"", "http://", "https://"}
  /\ \/ p.host \in {"youtube.com", "m.youtube.com"} /\ p.form = "watch" /\ p.slash = 0
          /\ p.query \in {"v", "v&t", "t&v", "v&v"}
     \/ p.host = "youtu.be" /\ p.form = "bare"
     \/ p.host = "youtube.com" /\ p.form = "shorts"

\* C4: normalizeYouTubeVideoURL of a recognized form of a well-formed
\* identifier id is https://www.youtube.com/watch?v=<id>, and
\* getYouTubeVideoId of that result is id.
C4_NormalizeRoundTrip ==
  Returned("normalizeYouTubeVideoURL") /\ RecognizedYouTubeForm(parts) =>
    /\ result = CanonicalYouTube \o parts.id
    /\ getYouTubeVideoId(result, NoOptions) = parts.id

\* A shorts URL with a further query parameter was normalized.
C4_Witness ==
  /\ Returned("normalizeYouTubeVideoURL")
  /\ RecognizedYouTubeForm(parts)
  /\ parts.form = "shorts"
  /\ parts.query = "t"
  /\ result = CanonicalYouTube \o GoodYouTubeId

\* An input on tiktok.com has a username segment before `video`.
HasUsernameSegment(p) ==
  /\ p.platform = "tiktok"
  /\ p.host = "tiktok.com"
  /\ p.form \in {"video", "locale", "after"}

\* C5: isValidTikTokVideoURL is false for a tiktok.com URL whose username,
\* the segment before `video` without its optional leading '@', is not 2 to
\* 24 characters of [A-Za-z0-9._], even when the identifier is well-formed.
C5_StrictUsername ==
  /\ Returned("isValidTikTokVideoURL")
  /\ HasUsernameSegment(parts)
  /\ ~TikTokUsernameShape(WithoutAt(parts.user))
  => result = FALSE

\* C6: whenever getTikTokVideoId with the default options returns an
\* identifier for an input, normalizeTikTokVideoURL returns the canonical
\* URL https://www.tiktok.com/@<username>/video/<id> with that identifier.
C6_NormalizeWheneverExtract ==
  Returned("normalizeTikTokVideoURL") /\ getTikTokVideoId(url, NoOptions) # null =>
    /\ result # null
    /\ startsWith(result, CanonicalTikTok)
    /\ endsWith(result, "/video/" \o getTikTokVideoId(url, NoOptions))

\* The name the canonical URL of an input carries: the username without
\* its leading '@' if it has the username shape, and 'user' otherwise.
CanonicalName(p) ==
  IF HasUsernameSegment(p) /\ TikTokUsernameShape(WithoutAt(p.user))
    THEN WithoutAt(p.user)
    ELSE "user"

\* C7: a result of normalizeTikTokVideoURL is exactly
\* https://www.tiktok.com/@<name>/video/<id>, <name> being the located
\* username without its leading '@' if that has the username shape and
\* 'user' otherwise; an identifier that is not 19 digits gives no result.
C7_NormalizeUsername ==
  Returned("normalizeTikTokVideoURL") /\ parts.platform = "tiktok" =>
    /\ result # null
         => result = CanonicalTikTok \o CanonicalName(parts) \o "/video/" \o parts.id
    /\ ~TikTokIdShape(parts.id) => result = null

\* C8: isYouTubeURL is true for every input that isValidYouTubeVideoURL
\* accepts, or for which getYouTubeVideoId returns an identifier, under
\* some options.
C8_IsYouTubeURLMostPermissive ==
  /\ Returned("isYouTubeURL")
  /\ \E o \in OptionsSet :
        isValidYouTubeVideoURL(url, o) \/ getYouTubeVideoId(url, o) # null
  => result = TRUE

\* C9: for every input that isValidYouTubeVideoURL accepts under the
\* default options, normalizeYouTubeVideoURL returns
\* https://www.youtube.com/watch?v= followed by getYouTubeVideoId of the input.
C9_NormalizeEveryValid ==
  Returned("normalizeYouTubeVideoURL") /\ isValidYouTubeVideoURL(url, NoOptions) =>
    /\ result # null
    /\ result = CanonicalYouTube \o getYouTubeVideoId(url, NoOptions)

\* C10: with allowNoWWW false, isValidYouTubeVideoURL and getYouTubeVideoId
\* reject a URL whose hostname has no www. prefix.
C10_AllowNoWWW ==
  /\ pc = "returned"
  /\ op \in {"isValidYouTubeVideoURL", "getYouTubeVideoId"}
  /\ parts.platform = "youtube"
  /\ parts.www = ""
  /\ opts # NoOptions
  /\ ~opts["allowNoWWW"]
  => IF op = "isValidYouTubeVideoURL" THEN result = FALSE ELSE result = null

\* The operations that answer false on failure, and those that answer null.
Predicates ==
  {"isValidYouTubeVideoURL", "isYouTubeURL", "isYouTubeEmbedURL",
   "isValidTikTokVideoURL", "isTikTokURL"}
Extractors ==
  {"getYouTubeVideoId", "normalizeYouTubeVideoURL", "toYouTubeEmbedURL",
   "toYouTubeShortURL", "getTikTokVideoId", "normalizeTikTokVideoURL"}
YouTubeVideoOps ==
  {"isValidYouTubeVideoURL", "getYouTubeVideoId", "normalizeYouTubeVideoURL",
   "toYouTubeEmbedURL", "toYouTubeShortURL"}
TikTokVideoOps ==
  {"isValidTikTokVideoURL", "getTikTokVideoId", "normalizeTikTokVideoURL"}

\* Hosts of the inputs that belong to neither platform's domains.
ForeignYouTubeHosts == {"vimeo.com", "notyoutube.com", "youtube.example.com"}
ForeignTikTokHosts == {"youtube.com", "m.tiktok.com", "music.tiktok.com"}

\* A YouTube input written without an identifier.
NoYouTubeId(p) ==
  \/ p.form = "none"
  \/ p.form = "watch" /\ p.query \in {"none", "t"}

\* The result of the operation name is its failure value.
Failed(name, r) ==
  CASE name \in Predicates -> r = FALSE
    [] name \in Extractors -> r = null
    [] name = "parseYouTubeURL" -> r.type = "unknown"

\* The input of a call is one of the failures of the operation called: no
\* string or no URL, a host of another site, an identifier that is missing
\* or not of the platform's shape, query parameters the options forbid.
FailingInput(name, p, options) ==
  \/ p.platform = "raw"
  \/ p.platform = "youtube" /\ p.host \in ForeignYouTubeHosts
  \/ p.platform = "tiktok" /\ p.host \in ForeignTikTokHosts
  \/ /\ name \in YouTubeVideoOps
     /\ p.platform = "youtube"
     /\ ~YouTubeIdShape(p.id) \/ NoYouTubeId(p)
  \/ /\ name \in TikTokVideoOps
     /\ p.platform = "tiktok"
     /\ ~TikTokIdShape(p.id)
  \/ /\ name \in {"isValidYouTubeVideoURL", "getYouTubeVideoId"}
     /\ p.platform = "youtube"
     /\ ~Opt(options, "allowQueryParams")
     /\ HasKeyOtherThanV(p)
  \/ /\ name \in {"isValidTikTokVideoURL", "getTikTokVideoId"}
     /\ p.platform = "tiktok"
     /\ ~Opt(options, "allowQueryParams")
     /\ p.query = "?is_from_webapp=1"

\* C11: on an input that is no string, no URL, on another site's host,
\* without a well-formed identifier or with query parameters the options
\* forbid, every predicate returns false, every extractor, normalizer and
\* converter returns null and parseYouTubeURL returns type 'unknown'; none
\* of them raises an error.
C11_AbsenceAsFailure ==
  /\ pc = "returned"
  /\ op \in Predicates \cup Extractors \cup {"parseYouTubeURL"}
  /\ FailingInput(op, parts, opts)
  => Failed(op, result)

\* A string result is an error raised by the call.
IsError(r) == startsWith(r, "<Error: ")

\* C12: generateTikTokShareURL raises 'Invalid TikTok video ID' if its
\* argument is absent, empty or, trimmed, not 19 decimal digits, and
\* otherwise returns https://vm.tiktok.com/ followed by the trimmed
\* argument; no other operation raises an error.
C12_ShareURLHardFailure ==
  pc = "returned" =>
    /\ op = "generateTikTokShareURL" =>
         result = IF parts.text = null \/ ~TikTokIdShape(trim(parts.text))
                    THEN Throw("Invalid TikTok video ID")
                    ELSE "https://vm.tiktok.com/" \o trim(parts.text)
    /\ op \in Extractors \cup {"generateYouTubeShareURL"} => ~IsError(result)
    /\ op \in Predicates => result \in BOOLEAN
    /\ op = "parseYouTubeURL" => ~IsError(result.type)

\* An identifier with blanks around it was given and embedded trimmed.
C12_Witness ==
  /\ Returned("generateTikTokShareURL")
  /\ parts.text = " " \o GoodTikTokId \o " "
  /\ result = "https://vm.tiktok.com/" \o GoodTikTokId

\* A malformed identifier was given and the error was raised.
C12_WitnessError ==
  /\ Returned("generateTikTokShareURL")
  /\ parts.text = "invalid-id"
  /\ IsError(result)

\* The identifier of a YouTube input is where isValidYouTubeVideoURL looks
\* for it: the v parameter of /watch on youtube.com or m.youtube.com, or
\* the path on youtu.be.
WrittenWhereValidated(p) ==
  /\ p.platform = "youtube"
  /\ \/ /\ toLowerCase(p.host) \in {"youtube.com", "m.youtube.com"}
        /\ p.form = "watch"
        /\ p.query \in {"v", "v&t", "t&v", "v&v"}
     \/ toLowerCase(p.host) = "youtu.be" /\ p.form = "bare"

\* C13: isValidYouTubeVideoURL is false, under every options value, for a
\* URL whose located identifier is not 11 characters long, has a character
\* outside [A-Za-z0-9_-] or is one character repeated 11 times.
C13_RejectsMalformedId ==
  /\ Returned("isValidYouTubeVideoURL")
  /\ WrittenWhereValidated(parts)
  /\ ~YouTubeIdShape(parts.id)
  => result = FALSE

\* A youtu.be URL of a repeated character was rejected under the default
\* options, with nothing else wrong with it.
C13_Witness ==
  /\ Returned("isValidYouTubeVideoURL")
  /\ WrittenWhereValidated(parts)
  /\ parts.id = "aaaaaaaaaaa"
  /\ parts.host = "youtu.be"
  /\ parts.scheme = "https://"
  /\ parts.query = "none"
  /\ opts = NoOptions
  /\ result = FALSE

\* Other ways of writing a URL of the identifier id: another scheme, host,
\* form and further query parameters.
OtherFormsOf(id) ==
  {"youtu.be/" \o id,
   "http://m.youtube.com/watch?feature=share&v=" \o id \o "&t=120s",
   "https://www.youtube.com/shorts/" \o id \o "?t=30"}

\* C14: a result of normalizeYouTubeVideoURL is
\* https://www.youtube.com/watch?v=<id> for the identifier <id> located in
\* the input and nothing else, so that it is the same string as the result
\* for any other accepted URL of that identifier, whatever the scheme, host,
\* form or further query parameters.
C14_CanonicalDependsOnlyOnId ==
  /\ Returned("normalizeYouTubeVideoURL")
  /\ parts.platform = "youtube"
  /\ result # null
  => /\ result = CanonicalYouTube \o parts.id
     /\ \A other \in OtherFormsOf(parts.id) :
          normalizeYouTubeVideoURL(other) = result

\* A watch URL on m.youtube.com, with http and without a www. prefix, was
\* normalized.
C14_Witness ==
  /\ Returned("normalizeYouTubeVideoURL")
  /\ parts.platform = "youtube"
  /\ parts.host = "m.youtube.com"
  /\ parts.scheme = "http://"
  /\ parts.www = ""
  /\ result = CanonicalYouTube \o GoodYouTubeId

\* The hostname of an input, lower-cased and without its www. prefix, is
\* one of youtube.com, m.youtube.com, youtu.be, music.youtube.com, or ends
\* with '.' and one of them.
OnYouTubeDomain(p) ==
  \E d \in {"youtube.com", "m.youtube.com", "youtu.be", "music.youtube.com"} :
     \/ toLowerCase(p.host) = d
     \/ endsWith(toLowerCase(p.host), "." \o d)

\* C15: for an input that is a URL once trimmed and given https:// if it
\* has no scheme, isYouTubeURL is true if and only if the hostname,
\* lower-cased and without a leading www., is one of youtube.com,
\* m.youtube.com, youtu.be, music.youtube.com or a subdomain of one of
\* them, whatever the path and the query.
C15_IsYouTubeURLHostRule ==
  Returned("isYouTubeURL") /\ parts.platform = "youtube" =>
    result = OnYouTubeDomain(parts)

\* C16: isTikTokURL is true if and only if the input, trimmed and given
\* https:// when it has no http or https scheme, is a URL whose hostname,
\* lower-cased and without a leading www., is exactly tiktok.com or
\* vm.tiktok.com; other subdomains, other hosts and inputs that are no URL
\* give false.
C16_IsTikTokURLExactHost ==
  Returned("isTikTokURL") =>
    result = (/\ parts.platform = "tiktok"
              /\ toLowerCase(parts.host) \in {"tiktok.com", "vm.tiktok.com"})

\* A padded URL with an upper-case scheme and a www. prefix was recognized.
C16_Witness ==
  /\ Returned("isTikTokURL")
  /\ parts.platform = "tiktok"
  /\ parts.scheme = "HTTPS://"
  /\ parts.pad = 1
  /\ parts.www = "www."
  /\ result = TRUE

\* A URL on a subdomain other than vm. was refused.
C16_WitnessSubdomain ==
  /\ Returned("isTikTokURL")
  /\ parts.platform = "tiktok"
  /\ parts.host = "music.tiktok.com"
  /\ result = FALSE

\* The hostname of a YouTube input, lower-cased and without its www.
\* prefix, is none of youtube.com, m.youtube.com, youtu.be.
OffAllowList(p) ==
  /\ p.platform = "youtube"
  /\ toLowerCase(p.host) \notin {"youtube.com", "m.youtube.com", "youtu.be"}

\* The validators refuse every URL whose host is not on the allow-list.
ValidatorsRefuseOffAllowList ==
  pc = "returned" /\ OffAllowList(parts) =>
    /\ op = "isValidYouTubeVideoURL" => result = FALSE
    /\ op = "getYouTubeVideoId" => result = null
    /\ op = "normalizeYouTubeVideoURL" => result = null

\* C17: isValidYouTubeVideoURL, getYouTubeVideoId and
\* normalizeYouTubeVideoURL return false or null for every URL whose
\* hostname, lower-cased and without a leading www., is not exactly
\* youtube.com, m.youtube.com or youtu.be, music.youtube.com included,
\* while isYouTubeURL is true for every URL on music.youtube.com.
C17_StrictHostAllowList ==
  /\ ValidatorsRefuseOffAllowList
  /\ Returned("isYouTubeURL") /\ parts.platform = "youtube"
       /\ parts.host = "music.youtube.com"
     => result = TRUE

\* The operations that read allowNoProtocol.
ProtocolOps ==
  {"isValidYouTubeVideoURL", "getYouTubeVideoId", "isValidTikTokVideoURL",
   "getTikTokVideoId"}

\* The operation name applied to u under options.
Apply(name, u, options) ==
  CASE name = "isValidYouTubeVideoURL" -> isValidYouTubeVideoURL(u, options)
    [] name = "getYouTubeVideoId" -> getYouTubeVideoId(u, options)
    [] name = "isValidTikTokVideoURL" -> isValidTikTokVideoURL(u, options)
    [] name = "getTikTokVideoId" -> getTikTokVideoId(u, options)

\* An options value with allowNoProtocol the other way round.
FlipNoProtocol(options) ==
  IF options = NoOptions THEN [allowNoProtocol |-> FALSE]
  ELSE [options EXCEPT !["allowNoProtocol"] = ~@]

\* An input that is a string written without a scheme, or with one.
WithoutScheme(p) ==
  \/ p.platform \in {"youtube", "tiktok"} /\ p.scheme = ""
  \/ p.platform = "raw" /\ isString(p.text)
WithScheme(p) ==
  p.platform \in {"youtube", "tiktok"} /\ p.scheme # ""

\* C18: on an input without an http or https scheme, in any letter case,
\* the validators and extractors return false or null when allowNoProtocol
\* is false and, when it is true, what they return for the trimmed input
\* with https:// before it; on an input with a scheme the option changes
\* nothing.
C18_AllowNoProtocol ==
  pc = "returned" /\ op \in ProtocolOps =>
    /\ WithoutScheme(parts) /\ ~Opt(opts, "allowNoProtocol") => Failed(op, result)
    /\ WithoutScheme(parts) /\ Opt(opts, "allowNoProtocol")
         => result = Apply(op, "https://" \o trim(url), opts)
    /\ WithScheme(parts) => result = Apply(op, url, FlipNoProtocol(opts))

\* A URL without a scheme, valid under the default options, was refused
\* with allowNoProtocol false.
C18_Witness ==
  /\ Returned("isValidYouTubeVideoURL")
  /\ parts.platform = "youtube"
  /\ parts.scheme = ""
  /\ ~Opt(opts, "allowNoProtocol")
  /\ Opt(opts, "allowQueryParams")
  /\ result = FALSE
  /\ isValidYouTubeVideoURL(url, NoOptions)

\* An options value with allowQueryParams true.
AllowingQueryParams(options) ==
  [options EXCEPT !["allowQueryParams"] = TRUE]

\* A TikTok input written with a query string that is not empty.
HasQueryString(p) == p.platform = "tiktok" /\ p.query \notin {"", "?"}

\* C19: with allowQueryParams false, isValidTikTokVideoURL and
\* getTikTokVideoId return false or null for a URL with a non-empty query
\* string, and for any other input what they return with allowQueryParams
\* true.
C19_TikTokQueryParamsOption ==
  /\ pc = "returned"
  /\ op \in {"isValidTikTokVideoURL", "getTikTokVideoId"}
  /\ ~Opt(opts, "allowQueryParams")
  => IF HasQueryString(parts)
       THEN Failed(op, result)
       ELSE result = Apply(op, url, AllowingQueryParams(opts))

\* A URL with a query string, valid under the default options, was refused
\* with allowQueryParams false.
C19_Witness ==
  /\ Returned("isValidTikTokVideoURL")
  /\ HasQueryString(parts)
  /\ ~Opt(opts, "allowQueryParams")
  /\ Opt(opts, "allowNoProtocol")
  /\ result = FALSE
  /\ isValidTikTokVideoURL(url, NoOptions)

\* A URL ending in '?', with an empty query string, was accepted with
\* allowQueryParams false.
C19_WitnessEmptyQuery ==
  /\ Returned("isValidTikTokVideoURL")
  /\ parts.platform = "tiktok"
  /\ parts.query = "?"
  /\ ~Opt(opts, "allowQueryParams")
  /\ result = TRUE

\* The share URL of an identifier and a params object, the pairs in the
\* order of insertion.
ShareURLInInsertionOrder(id, params) ==
  "https://youtu.be/" \o id
    \o (IF params = <<>> THEN "" ELSE "?" \o join(mapEntries(params), "&"))

\* C20: generateYouTubeShareURL returns https://youtu.be/<videoId>, with no
\* '?' for an empty params object and otherwise followed by '?' and one
\* key=value pair per entry, joined by '&', in the order of insertion, keys
\* and values percent-encoded; the videoId is embedded as it is given.
C20_ShareURLConstruction ==
  Returned("generateYouTubeShareURL") =>
    result = ShareURLInInsertionOrder(parts.id, parts.params)

\* No key of the params object of the call is an integer index.
NoIntegerKeys ==
  \A i \in 1..Len(parts.params) : ~isIntegerIndex(parts.params[i].key)

\* The construction holds for every params object without integer keys.
ShareURLConstructionOnNamedKeys ==
  Returned("generateYouTubeShareURL") /\ NoIntegerKeys =>
    result = ShareURLInInsertionOrder(parts.id, parts.params)

\* A YouTube input written in one of the forms getYouTubeVideoId reads,
\* with a well-formed identifier.
ExtractableForm(p) ==
  /\ p.platform = "youtube"
  /\ YouTubeIdShape(p.id)
  /\ \/ /\ toLowerCase(p.host) \in {"youtube.com", "m.youtube.com"}
        /\ \/ p.form = "watch" /\ p.slash = 0 /\ p.query \in {"v", "v&t", "t&v", "v&v"}
           \/ p.form \in {"shorts", "embed", "live"}
     \/ toLowerCase(p.host) = "youtu.be" /\ p.form = "bare"

\* C21: toYouTubeEmbedURL and toYouTubeShortURL return null exactly when
\* getYouTubeVideoId under the default options returns null, and otherwise
\* https://www.youtube.com/embed/<id> and https://youtu.be/<id> for the
\* identifier it returns; watch, youtu.be, shorts, embed and live inputs of
\* a well-formed identifier are all converted.
C21_ConvertersFollowExtraction ==
  /\ Returned("toYouTubeEmbedURL") =>
       /\ result = IF getYouTubeVideoId(url, NoOptions) = null THEN null
                   ELSE "https://www.youtube.com/embed/" \o getYouTubeVideoId(url, NoOptions)
       /\ ExtractableForm(parts) => result = "https://www.youtube.com/embed/" \o parts.id
  /\ Returned("toYouTubeShortURL") =>
       /\ result = IF getYouTubeVideoId(url, NoOptions) = null THEN null
                   ELSE "https://youtu.be/" \o getYouTubeVideoId(url, NoOptions)
       /\ ExtractableForm(parts) => result = "https://youtu.be/" \o parts.id

\* A live URL was converted to its embed URL.
C21_Witness ==
  /\ Returned("toYouTubeEmbedURL")
  /\ ExtractableForm(parts)
  /\ parts.form = "live"
  /\ result = "https://www.youtube.com/embed/" \o GoodYouTubeId

\* The value an input was written with for a query key: of the first
\* occurrence of the key, null when the key is not written or its value is
\* empty.
WrittenParameter(p, key) ==
  CASE key = "v" /\ p.query \in {"v", "v&t", "t&v", "v&v"} /\ p.id # "" -> p.id
    [] key = "v" /\ p.query = "list&v" -> OtherYouTubeId
    [] key = "list" /\ p.query \in {"list", "list&v"} /\ p.id # "" -> p.id
    [] OTHER -> null

\* The path an input was written with.
WrittenPath(p) == YouTubePath(p.form, p.id) \o Repeat("/", p.slash)

OnMainYouTubeHost(p) == toLowerCase(p.host) \in {"youtube.com", "m.youtube.com"}

\* The first matching rule of the classification, read off the parts of an
\* input: <<type, videoId, playlistId, channelId, isEmbed>>.
Classification(p) ==
  IF OnMainYouTubeHost(p) /\ WrittenPath(p) = "/watch"
    THEN <<"video", WrittenParameter(p, "v"), null, null, FALSE>>
  ELSE IF toLowerCase(p.host) = "youtu.be"
    THEN <<"video", stripSlashes(WrittenPath(p)), null, null, FALSE>>
  ELSE IF OnMainYouTubeHost(p) /\ p.form = "shorts"
    THEN <<"short", p.id, null, null, FALSE>>
  ELSE IF OnMainYouTubeHost(p) /\ p.form = "embed"
    THEN <<"video", p.id, null, null, TRUE>>
  ELSE IF OnMainYouTubeHost(p) /\ p.form = "live"
    THEN <<"live", p.id, null, null, FALSE>>
  ELSE IF OnMainYouTubeHost(p) /\ p.form = "playlist"
    THEN <<"playlist", null, WrittenParameter(p, "list"), null, FALSE>>
  ELSE IF OnMainYouTubeHost(p) /\ p.form = "channel"
    THEN <<"channel", null, null, p.id, FALSE>>
  ELSE <<"unknown", null, null, null, FALSE>>

Classified(r) == <<r.type, r.videoId, r.playlistId, r.channelId, r.isEmbed>>

\* The classification holds of the result for an unpadded URL input, and an
\* input that is no URL is of type unknown.
ClassifiedByFirstRule ==
  /\ result.originalUrl = url
  /\ parts.platform = "youtube" /\ parts.pad = 0 =>
       Classified(result) = Classification(parts)
  /\ parts.platform = "raw" =>
       Classified(result) = <<"unknown", null, null, null, FALSE>>

\* C22: parseYouTubeURL classifies every input that parses, once given a
\* scheme if it has none, by the first matching rule: /watch on youtube.com
\* or m.youtube.com is a video with the `v` parameter, youtu.be a video with
\* the path without surrounding slashes, /shorts/ a short, /embed/ a video
\* with isEmbed, /live/ a live, /playlist a playlist with the `list`
\* parameter, /channel/<id> a channel; isEmbed is true only for /embed/,
\* originalUrl is the input, identifiers are not validated, and everything
\* else is of type unknown with no identifier.
C22_ParseClassification ==
  Returned("parseYouTubeURL") => ClassifiedByFirstRule

\* The classification on inputs whose scheme, if any, is written in lower
\* case.
C22_ClassificationOnLowerCaseSchemes ==
  Returned("parseYouTubeURL") /\ (parts.platform = "youtube" => parts.scheme # "HTTPS://")
    => ClassifiedByFirstRule

\* The result of the operation of the current call on its arguments,
\* evaluated on its own.
CallResult ==
  CASE op = "isValidYouTubeVideoURL" -> isValidYouTubeVideoURL(url, opts)
    [] op = "getYouTubeVideoId" -> getYouTubeVideoId(url, opts)
    [] op = "normalizeYouTubeVideoURL" -> normalizeYouTubeVideoURL(url)
    [] op = "isYouTubeURL" -> isYouTubeURL(url)
    [] op = "toYouTubeEmbedURL" -> toYouTubeEmbedURL(url)
    [] op = "toYouTubeShortURL" -> toYouTubeShortURL(url)
    [] op = "generateYouTubeShareURL" -> generateYouTubeShareURL(parts.id, parts.params)
    [] op = "parseYouTubeURL" -> parseYouTubeURL(url)
    [] op = "isYouTubeEmbedURL" -> isYouTubeEmbedURL(url)
    [] op = "isValidTikTokVideoURL" -> isValidTikTokVideoURL(url, opts)
    [] op = "getTikTokVideoId" -> getTikTokVideoId(url, opts)
    [] op = "normalizeTikTokVideoURL" -> normalizeTikTokVideoURL(url)
    [] op = "isTikTokURL" -> isTikTokURL(url)
    [] op = "generateTikTokShareURL" -> generateTikTokShareURL(url)

\* The module as it is loaded: both regular expressions at position 0.
ModuleAsLoaded == lastIndex = [videoId |-> 0, username |-> 0]

\* The operations that test the shared regular expressions, the only
\* operations that read anything but their arguments.
ModuleStateOps ==
  {"isValidTikTokVideoURL", "getTikTokVideoId", "normalizeTikTokVideoURL",
   "generateTikTokShareURL"}

\* C23: after any sequence of calls of any operations the state of the
\* module, the lastIndex of the two shared TikTok regular expressions, is
\* the state it was loaded with, and the result of a call that reads it is
\* the result of the operation on its arguments alone, whatever was called
\* before; the options or params object of a call is in the returned state
\* what was passed.
C23_CallHistoryIndependence ==
  /\ ModuleAsLoaded
  /\ pc = "returned" =>
       /\ op \in ModuleStateOps => result = CallResult
       /\ opts \in OptionsSet
       /\ op = "generateYouTubeShareURL" => parts.params \in ShareParams

\* isValidTikTokVideoURL has tested an identifier and a username against
\* the two shared regular expressions, both matched, and the module is as
\* it was loaded.
C23_Witness ==
  /\ Returned("isValidTikTokVideoURL")
  /\ result = TRUE
  /\ parts.platform = "tiktok"
  /\ parts.form = "video"
  /\ isValidTikTokVideoId(parts.id)
  /\ isValidTikTokUsername(parts.user)
  /\ ModuleAsLoaded

\* An input written in the watch form on youtube.com or m.youtube.com, or
\* on the host youtu.be.
WatchOrShortHostForm(p) ==
  /\ p.platform = "youtube"
  /\ \/ OnMainYouTubeHost(p) /\ p.form = "watch"
     \/ toLowerCase(p.host) = "youtu.be"

\* C24: isValidYouTubeVideoURL(u, o) is true exactly when u is of the
\* watch or youtu.be form and getYouTubeVideoId(u, o) returns an
\* identifier; the shorts, embed and live forms are read by extraction
\* only.
C24_ValidationIsExtractionOnWatchForms ==
  Returned("isValidYouTubeVideoURL") =>
    result = (WatchOrShortHostForm(parts) /\ getYouTubeVideoId(url, opts) # null)

\* A shorts URL was refused by validation although extraction returns its
\* identifier.
C24_Witness ==
  /\ Returned("isValidYouTubeVideoURL")
  /\ parts.platform = "youtube"
  /\ parts.form = "shorts"
  /\ result = FALSE
  /\ getYouTubeVideoId(url, opts) = GoodYouTubeId

\* A watch URL was accepted by validation and extraction returns its
\* identifier.
C24_WitnessWatch ==
  /\ Returned("isValidYouTubeVideoURL")
  /\ WatchOrShortHostForm(parts)
  /\ parts.form = "watch"
  /\ result = TRUE
  /\ getYouTubeVideoId(url, opts) = GoodYouTubeId

\* No username is located in the input, or the located username has the
\* username shape.
UsernameAbsentOrWellFormed(p) ==
  HasUsernameSegment(p) => TikTokUsernameShape(WithoutAt(p.user))

ValidationIsExtractionAndUsername ==
  result = (getTikTokVideoId(url, opts) # null /\ UsernameAbsentOrWellFormed(parts))

\* C25: isValidTikTokVideoURL(u, o) is true exactly when
\* getTikTokVideoId(u, o) returns an identifier and the username located in
\* u is absent or is 2 to 24 characters of [A-Za-z0-9._]; extraction
\* returns the identifier of a URL whose username is present but invalid,
\* validation refuses that URL.
C25_ExtractionIgnoresUsername ==
  Returned("isValidTikTokVideoURL") /\ parts.platform = "tiktok"
    => ValidationIsExtractionAndUsername

\* The equivalence on usernames that are neither empty nor written with a
\* second '@'.
C25_OnUsernamesWithoutSecondAt ==
  /\ Returned("isValidTikTokVideoURL")
  /\ parts.platform = "tiktok"
  /\ parts.user \notin {"@", "@@ab"}
  => ValidationIsExtractionAndUsername

\* The identifier and the username of the location rule, read off the
\* parts of a TikTok input: after `video` at index 1 of 3 or more segments
\* or at index 2 of 4 or more on tiktok.com, the whole path on
\* vm.tiktok.com, nothing elsewhere.
NothingLocated == [videoId |-> null, username |-> null]

LocatedByRule(p) ==
  IF p.host = "tiktok.com"
    THEN IF p.form \in {"video", "locale", "after"}
           THEN [videoId |-> p.id, username |-> WithoutAt(p.user)]
           ELSE NothingLocated
  ELSE IF p.host = "vm.tiktok.com"
    THEN [videoId |-> stripSlashes(TikTokPath(p.form, p.user, p.id) \o Repeat("/", p.slash)),
          username |-> null]
  ELSE NothingLocated

\* The three locators on the URL an input parses to.
LocatorsFollowRule(parsed, p) ==
  /\ validateLocateTikTok(parsed, hostnameOf(parsed)) = LocatedByRule(p)
  /\ extractLocateTikTokId(parsed, hostnameOf(parsed)) = LocatedByRule(p).videoId
  /\ normalizeLocateTikTok(parsed, hostnameOf(parsed)) = LocatedByRule(p)

\* C26: on tiktok.com the identifier is the segment after `video`, with
\* `video` at index 1 of 3 or more non-empty segments (username segment 0)
\* or else at index 2 of 4 or more (username segment 1); later segments
\* and trailing slashes are ignored, and `video` elsewhere or last locates
\* nothing.  On vm.tiktok.com the identifier is the path without its
\* surrounding slashes and there is no username.  isValidTikTokVideoURL,
\* getTikTokVideoId and normalizeTikTokVideoURL locate the same.
C26_TikTokLocationRule ==
  pc = "returned" /\ parts.platform = "tiktok" =>
    /\ op = "getTikTokVideoId" =>
         /\ LocatorsFollowRule(ParseURL(addProtocol(trim(url))), parts)
         /\ result # null => result = LocatedByRule(parts).videoId
         /\ opts = NoOptions /\ TikTokIdShape(LocatedByRule(parts).videoId)
              => result = LocatedByRule(parts).videoId
    /\ op = "isValidTikTokVideoURL" /\ result = TRUE =>
         TikTokIdShape(LocatedByRule(parts).videoId)
    /\ op = "normalizeTikTokVideoURL" /\ result # null =>
         LastSegment(result) = LocatedByRule(parts).videoId

\* The identifier of a URL that starts with a locale was extracted.
C26_Witness ==
  /\ Returned("getTikTokVideoId")
  /\ parts.platform = "tiktok"
  /\ parts.form = "locale"
  /\ result = GoodTikTokId

\* Nothing was extracted from a URL whose last segment is `video`.
C26_WitnessVideoLast ==
  /\ Returned("getTikTokVideoId")
  /\ parts.platform = "tiktok"
  /\ parts.form = "videolast"
  /\ result = null

\* An input written as an embed URL on youtube.com, with or without www.
\* and in any letter case of the host.
EmbedOnYouTubeCom(p) ==
  /\ p.platform = "youtube"
  /\ toLowerCase(p.host) = "youtube.com"
  /\ p.form = "embed"

\* isYouTubeEmbedURL on an unpadded input is true exactly for an embed URL
\* on youtube.com, and a true result is parsed as an embedded video.
EmbedCheckIsStructural ==
  /\ parts.platform = "raw" => result = FALSE
  /\ parts.platform = "youtube" /\ parts.pad = 0 => result = EmbedOnYouTubeCom(parts)
  /\ result = TRUE =>
       /\ parseYouTubeURL(url).type = "video"
       /\ parseYouTubeURL(url).isEmbed

\* C27: isYouTubeEmbedURL is true if and only if the input is a non-empty
\* string that parses as a URL, once given a scheme if it has none, whose
\* hostname without www. and in lower case is youtube.com and whose path
\* starts with /embed/; the identifier is not validated, m.youtube.com,
\* youtu.be, watch, shorts and live URLs give false, and whenever it is true
\* parseYouTubeURL gives type video with isEmbed true.
C27_EmbedCheck ==
  Returned("isYouTubeEmbedURL") => EmbedCheckIsStructural

\* The same on inputs whose scheme, if any, is written in lower case.
C27_EmbedCheckOnLowerCaseSchemes ==
  Returned("isYouTubeEmbedURL") /\ (parts.platform = "youtube" => parts.scheme # "HTTPS://")
    => EmbedCheckIsStructural

\* The query an input was written with: its keys, and the value of the
\* last occurrence of a key.
WrittenKeys(p) ==
  CASE p.query = "none" -> {}
    [] p.query \in {"v", "v&v"} -> {"v"}
    [] p.query \in {"v&t", "t&v"} -> {"v", "t"}
    [] p.query = "t" -> {"t"}
    [] p.query = "list" -> {"list"}
    [] p.query = "list&v" -> {"list", "v"}

LastWritten(p, key) ==
  CASE key = "t" -> "120s"
    [] key = "list" -> p.id
    [] key = "v" /\ p.query \in {"v&v", "list&v"} -> OtherYouTubeId
    [] OTHER -> p.id

\* The parameters of the result are the query of the input, and the
\* identifier of a /watch URL is its parameter `v`.
ParametersAreTheQuery ==
  /\ DOMAIN result.parameters = WrittenKeys(parts)
  /\ \A k \in WrittenKeys(parts) : result.parameters[k] = LastWritten(parts, k)
  /\ OnMainYouTubeHost(parts) /\ WrittenPath(parts) = "/watch" /\ result.videoId # null
       => /\ "v" \in DOMAIN result.parameters
          /\ result.videoId = result.parameters["v"]

\* C28: for every URL that parses, the parameters of parseYouTubeURL are
\* exactly the query keys of the URL, each with the value of its last
\* occurrence, and for every /watch URL on youtube.com or m.youtube.com,
\* also one that repeats the key `v` with different values, a videoId that
\* is present equals parameters['v'].
C28_IdentifierMatchesParameters ==
  Returned("parseYouTubeURL") /\ parts.platform = "youtube" /\ parts.pad = 0
    => ParametersAreTheQuery

\* The same on URLs that do not repeat the key `v`.
C28_OnQueriesWithoutRepeatedKey ==
  /\ Returned("parseYouTubeURL")
  /\ parts.platform = "youtube"
  /\ parts.pad = 0
  /\ parts.query # "v&v"
  => ParametersAreTheQuery

\* The options under which isValidTikTokVideoURL is strictest.
StrictOptions == [allowNoProtocol |-> FALSE, allowQueryParams |-> FALSE]

\* C29: every URL c that normalizeTikTokVideoURL returns is valid with
\* allowNoProtocol and allowQueryParams both false, getTikTokVideoId(c) is
\* the identifier located in the input, and normalizeTikTokVideoURL(c) = c.
C29_CanonicalIsStrictlyValidFixedPoint ==
  Returned("normalizeTikTokVideoURL") /\ result # null =>
    /\ isValidTikTokVideoURL(result, StrictOptions)
    /\ getTikTokVideoId(result, NoOptions) = LocatedByRule(parts).videoId
    /\ normalizeTikTokVideoURL(result) = result

\* A URL with a username that fails the test and a query string was
\* normalized to the canonical URL of the placeholder username.
C29_Witness ==
  /\ Returned("normalizeTikTokVideoURL")
  /\ parts.platform = "tiktok"
  /\ parts.user = "@user!"
  /\ parts.query = "?is_from_webapp=1"
  /\ result = CanonicalTikTok \o "user/video/" \o GoodTikTokId

\* C30: options only restrict.  Whenever a validator is true or an
\* extractor returns an identifier under an options record, it returns the
\* same under the default options and under the record with any one option
\* that is off turned on: setting allowNoProtocol or
\* allowQueryParams to false never turns a refused URL into an accepted
\* one and never changes the identifier extracted.
C30_OptionsOnlyRestrict ==
  pc = "returned" /\ op \in ProtocolOps /\ ~Failed(op, result) =>
    /\ Apply(op, url, NoOptions) = result
    /\ \A k \in OptionKeys :
         ~Opt(opts, k) => Apply(op, url, [opts EXCEPT ![k] = TRUE]) = result

\* An identifier was extracted with both options false; the default
\* options give the same identifier.
C30_Witness ==
  /\ Returned("getYouTubeVideoId")
  /\ ~Opt(opts, "allowNoProtocol")
  /\ ~Opt(opts, "allowQueryParams")
  /\ result = GoodYouTubeId
  /\ getYouTubeVideoId(url, NoOptions) = GoodYouTubeId

\* A TikTok URL valid with both options false.
C30_WitnessTikTok ==
  /\ Returned("isValidTikTokVideoURL")
  /\ ~Opt(opts, "allowNoProtocol")
  /\ ~Opt(opts, "allowQueryParams")
  /\ result = TRUE

====
